---- MODULE Spec2Model ----
(***************************************************************************)
(* ds-runtime: request queue, CPU thread-pool backend, io_uring backend    *)
(* and Vulkan staging backend, modelled as state machines.                 *)
(*                                                                         *)
(* Ten specifications share the variables:                                 *)
(*   Spec       a caller drives Backend::submit of one of the three        *)
(*              backends directly with a recording completion callback;    *)
(*   SpecQueue  two client threads drive ds::Queue on top of the CPU       *)
(*              backend, the completion closure of Queue::Impl::submit_all *)
(*              running step by step on the pool workers;                  *)
(*   FairSpecQueue  the queue with one submitting thread, every thread     *)
(*              waiting, and the threads' progress assumed;                *)
(*   SpecRing   the io_uring backend alone, with longer batches;           *)
(*   SpecLocks  the queue with the lock and unlock of mtx_ as steps of     *)
(*              their own;                                                 *)
(*   SpecLog    threads in report_error, report_request_error and          *)
(*              set_error_callback, with sinks that call back into them;   *)
(*   SpecVk     the Vulkan backend alone, constructed on its own or on     *)
(*              borrowed device handles, with the handles it creates and   *)
(*              destroys recorded;                                         *)
(*   SpecDiag   each backend handed requests that end in a diagnostic;     *)
(*   SpecData   each backend handed host reads and writes one at a time,   *)
(*              with the bytes of the file and of the buffers;             *)
(*   SpecC      two client threads drive the C interface's queue on top of *)
(*              the CPU backend or of an io_uring backend whose ring       *)
(*              failed to initialise, with the user callback as a step.    *)
(***************************************************************************)
EXTENDS Integers, Sequences, FiniteSets, TLC

\* ---------------------------------------------------------------- bounds
MaxReq == 2       \* requests handed to Backend::submit in Spec
MaxQReq == 2      \* requests enqueued into the Queue in SpecQueue
MaxRingReq == 3   \* requests handed to IoUringBackend::submit in SpecRing
MaxVkReq == 2     \* requests handed to VulkanBackend::submit in SpecVk
MaxDiagReq == 2   \* requests handed to Backend::submit in SpecDiag
MaxDataReq == 2   \* requests handed in one after the other in SpecData
MaxLen == 2       \* bytes of a request's buffer in SpecData
MaxCReq == 2      \* ds_requests enqueued through the C interface in SpecC

\* ------------------------------------------------------- errno constants
EIO == 5
EBADF == 9
EAGAIN == 11
EFAULT == 14
EINTR == 4
ENOMEM == 12
EBUSY == 16
EINVAL == 22
ENOTSUP == 95

Workers == {"w1", "w2"}
Clients == {"c1", "c2"}
Kinds == {"cpu", "ring", "vulkan"}
NoReq == 0

\* ---------------------------------------------------------------- Request
\* ds::Request.  Pointers are modelled by whether they are non-null.
Request == [fd |-> -1, offset |-> 0, size |-> 0, dst |-> FALSE, src |-> FALSE,
            gpu_buffer |-> FALSE, op |-> "Read",
            dst_memory |-> "Host", src_memory |-> "Host",
            compression |-> "None", status |-> "Pending",
            errno_value |-> 0, bytes_transferred |-> 0]

HostRead == [Request EXCEPT !.fd = 3, !.size = 2, !.dst = TRUE]
HostWrite == [Request EXCEPT !.fd = 3, !.size = 2, !.src = TRUE, !.op = "Write"]

BadFd == [HostRead EXCEPT !.fd = -1]
GpuRead == [HostRead EXCEPT !.dst_memory = "Gpu", !.gpu_buffer = TRUE, !.dst = FALSE]
GpuWrite == [HostWrite EXCEPT !.src_memory = "Gpu", !.gpu_buffer = TRUE, !.src = FALSE]

\* A Request object used again after an earlier completion still carries
\* the result fields of that completion.
Reused(req) == [req EXCEPT !.bytes_transferred = 5]

\* The requests a caller hands to a backend: well-formed ones and, per
\* backend, one for each way that backend's code can take with a request.
RequestInputs(k) ==
    {HostRead, HostWrite, BadFd, GpuRead} \cup
    CASE k = "cpu" ->
           { Request, [HostRead EXCEPT !.dst = FALSE],
             [HostRead EXCEPT !.src_memory = "Gpu"],
             [HostRead EXCEPT !.compression = "GDeflate"], Reused(BadFd) }
      [] k = "ring" ->
           { [HostRead EXCEPT !.compression = "GDeflate"],
             [HostRead EXCEPT !.compression = "FakeUppercase"],
             [HostWrite EXCEPT !.compression = "FakeUppercase"] }
      [] k = "vulkan" ->
           { GpuWrite, [GpuRead EXCEPT !.gpu_buffer = FALSE], Reused(HostRead) }

\* Result of a positional read/write: n >= 0 bytes, or -1 with errno err.
\* A descriptor below zero is refused by the kernel with EBADF, a null
\* buffer with EFAULT unless nothing is to be copied (end of file).
IoOutcomes(req, buffer) ==
    IF req.fd < 0 THEN { [n |-> -1, err |-> EBADF] }
    ELSE IF ~buffer /\ req.size > 0 THEN
        { [n |-> -1, err |-> EFAULT] } \cup
        (IF req.op = "Read" THEN { [n |-> 0, err |-> 0] } ELSE {})
    ELSE { [n |-> -1, err |-> EIO] } \cup
         { [n |-> k, err |-> 0] : k \in { j \in {1, req.size} : j <= req.size } }

\* The host buffer a request's positional I/O uses.
HostBuffer(req) == IF req.op = "Write" THEN req.src ELSE req.dst

\* What the installed diagnostic sink leaves in the thread's errno.
SinkEffects == {"keep", "clear"}
ErrnoAfterSink(e, sink) == IF sink = "keep" THEN e ELSE 0

\* ------------------------------------------------------------ diagnostics
\* report_error / report_request_error: the ErrorContext handed to the sink.
Snapshot(request) ==
    [fd |-> request.fd, offset |-> request.offset, size |-> request.size,
     op |-> request.op, src_memory |-> request.src_memory,
     dst_memory |-> request.dst_memory]

report_error(subsystem, operation, errno_value) ==
    [subsystem |-> subsystem, operation |-> operation,
     errno_value |-> errno_value, has_request |-> FALSE, rid |-> NoReq,
     request |-> Snapshot(Request)]

\* Variant: the snapshot of the request is not filled in.
report_request_error_blank(subsystem, operation, rid, request, errno_value) ==
    [subsystem |-> subsystem, operation |-> operation,
     errno_value |-> errno_value, has_request |-> TRUE, rid |-> rid,
     request |-> Snapshot(Request)]

\* rid names the request the call was made for; request is the argument
\* whose fields are copied into the context.
report_request_error(subsystem, operation, rid, request, errno_value) ==
    [subsystem |-> subsystem, operation |-> operation,
     errno_value |-> errno_value, has_request |-> TRUE, rid |-> rid,
     request |-> Snapshot(request)]

Fail(req, e) == [req EXCEPT !.status = "IoError", !.errno_value = e]

VARIABLES
    mode,        \* which specification runs: "backend" is Spec, "queue" SpecQueue
    kind,        \* which Backend implementation is under the caller
    reqs,        \* the requests handed in so far, in order (id = index)
    diags,       \* ErrorContexts reported so far
    cbCount,     \* per request id: completion callback invocations
    final,       \* per request id: the Request the callback was given
    dpc,         \* backend destructor: "alive", "cleaned", "stopping", "destroyed"
    \* ThreadPool (CPU and Vulkan backends)
    jobs, stop_, wpc, wreq,
    \* IoUringBackend
    init_failed, entries_, ring_pending, rpc, batch, sq, inKernel, toReap,
    \* VulkanBackend; staging[w]: the transient device objects worker w holds
    device_, command_pool_, vk_mutex_, staging,
    \* VulkanBackend: whose the device handles are, and which were destroyed
    config, instance_, owns_instance_, owns_device_, owns_command_pool_, destroyed,
    \* Queue::Impl
    pending_, completed_, in_flight_, total_completed_, total_failed_,
    total_bytes_transferred_, wait_mtx_, wait_cv_,
    \* client threads of the queue and bookkeeping of the history
    cpc, to_submit, handedBy, taken, lastBatch, preInFlight, batchAlone,
    \* Queue::Impl::mtx_, where SpecLocks takes and releases it in steps
    mtx_,
    \* the diagnostics of ds_runtime_logging.cpp in SpecLog
    g_error_mutex, g_error_callback, lstack,
    \* SpecData: the bytes of the file behind fd, per request id the bytes of
    \* the caller's buffer, and whether the kernel fails the request's I/O
    file, hostbuf, io_fault,
    \* SpecC: per request id the status and errno_value of the caller's
    \* ds_request, the user_data its completion closure captured, and what
    \* the user callback was handed
    c_request, captured, seen

backendVars == <<mode, kind, reqs, diags, cbCount, final, dpc>>
poolVars == <<jobs, stop_, wpc, wreq>>
ringVars == <<init_failed, entries_, ring_pending, rpc, batch, sq, inKernel, toReap>>
vkVars == <<device_, command_pool_, vk_mutex_, staging>>
ownVars == <<config, instance_, owns_instance_, owns_device_, owns_command_pool_,
             destroyed>>
queueVars == <<pending_, completed_, in_flight_, total_completed_, total_failed_,
               total_bytes_transferred_, wait_mtx_, wait_cv_>>
clientVars == <<cpc, to_submit, handedBy, taken, lastBatch, preInFlight, batchAlone>>
lockVars == <<mtx_>>
logVars == <<g_error_mutex, g_error_callback, lstack>>
dataVars == <<file, hostbuf, io_fault>>
cVars == <<c_request, captured, seen>>
vars == <<backendVars, poolVars, ringVars, vkVars, ownVars, queueVars, clientVars, lockVars,
          logVars, dataVars, cVars>>

\* A freshly created, empty file and no buffer handed in yet.
NoData == file = <<>> /\ hostbuf = <<>> /\ io_fault = <<>>

\* No ds_request handed to the C interface yet.
NoCRequest == c_request = <<>> /\ captured = <<>> /\ seen = <<>>


\* ---------------------------------------------------------------- CPU job
\* The closure CpuBackend::submit queues: validation, pread/pwrite, result.
\* Returns the final request and the diagnostics reported on the way.
CpuBackend_job(id, req, io, sink) ==
    IF req.fd < 0 THEN
        [req |-> Fail(req, EBADF),
         diags |-> {report_request_error("cpu", "submit", id, req, EBADF)}]
    ELSE IF req.size = 0 THEN
        [req |-> Fail(req, EINVAL),
         diags |-> {report_request_error("cpu", "submit", id, req, EINVAL)}]
    ELSE IF req.op = "Read" /\ ~req.dst THEN
        [req |-> Fail(req, EINVAL),
         diags |-> {report_request_error("cpu", "submit", id, req, EINVAL)}]
    ELSE IF req.op = "Write" /\ ~req.src THEN
        [req |-> Fail(req, EINVAL),
         diags |-> {report_request_error("cpu", "submit", id, req, EINVAL)}]
    ELSE IF \/ req.op = "Read" /\ req.dst_memory = "Gpu"
            \/ req.op = "Write" /\ req.src_memory = "Gpu" THEN
        [req |-> Fail(req, EINVAL),
         diags |-> {report_request_error("cpu", "submit", id, req, EINVAL)}]
    ELSE IF io.n < 0 THEN
        \* errno is passed to the reporter, then read again after the sink ran
        [req |-> [req EXCEPT !.status = "IoError",
                             !.errno_value = ErrnoAfterSink(io.err, sink),
                             !.bytes_transferred = 0],
         diags |-> {report_request_error("cpu",
                        IF req.op = "Write" THEN "pwrite" ELSE "pread",
                        id, req, io.err)}]
    ELSE
        [req |-> [req EXCEPT !.status = "Ok", !.errno_value = 0,
                             !.bytes_transferred = io.n],
         diags |-> {}]

\* ------------------------------------------------------------ Vulkan job
\* Outcomes of the device calls: success, or the call that failed (one
\* early and one late failure of each sequence, and the fence wait).
StagingOutcomes == {"ok", "vkCreateBuffer", "vkAllocateMemory"}
CopyOutcomes == {"ok", "vkAllocateCommandBuffers", "vkQueueSubmit", "vkWaitForFences"}

\* The transient device objects a request's handler allocates.
StagingPair == {"staging_buffer", "staging_memory"}
CopyPair == {"cmd", "fence"}

\* create_staging_buffer: the diagnostic of the step that failed, if any.
create_staging_buffer(st) ==
    IF st = "ok" THEN {}
    ELSE {report_error("vulkan", st, IF st = "vkCreateBuffer" THEN EIO ELSE ENOMEM)}

\* create_staging_buffer: what it leaves allocated.  After a failed
\* vkAllocateMemory the buffer it created is destroyed again.
staging_held(st) ==
    IF st = "ok" THEN StagingPair
    ELSE IF st = "vkCreateBuffer" THEN {}
    ELSE {"staging_buffer"} \ {"staging_buffer"}

\* destroy_buffer: vkDestroyBuffer and vkFreeMemory.
destroy_buffer(held) == held \ StagingPair

\* handle_host_io: positional I/O on the worker, no device involved.
\* bytes_transferred is not assigned on either branch.
handle_host_io(id, req, io, sink) ==
    IF io.n < 0 THEN
        [req |-> Fail(req, ErrnoAfterSink(io.err, sink)),
         diags |-> {report_request_error("vulkan",
                        IF req.op = "Write" THEN "pwrite" ELSE "pread", id, req, io.err)},
         copy |-> FALSE, held |-> {}]
    ELSE
        [req |-> [req EXCEPT !.status = "Ok", !.errno_value = 0],
         diags |-> {}, copy |-> FALSE, held |-> {}]

\* handle_file_to_gpu up to the call of submit_copy.
handle_file_to_gpu(id, req, st, map, io, sink) ==
    IF ~req.gpu_buffer THEN
        [req |-> Fail(req, EINVAL),
         diags |-> {report_request_error("vulkan", "file_to_gpu", id, req, EINVAL)},
         copy |-> FALSE, held |-> {}]
    ELSE IF st # "ok" THEN
        [req |-> Fail(req, ENOMEM),
         diags |-> create_staging_buffer(st) \cup
                   {report_request_error("vulkan", "create_staging_buffer", id, req, ENOMEM)},
         copy |-> FALSE, held |-> staging_held(st)]
    ELSE IF ~map THEN
        [req |-> Fail(req, EIO),
         diags |-> {report_request_error("vulkan", "vkMapMemory", id, req, EIO)},
         copy |-> FALSE, held |-> destroy_buffer(staging_held(st))]
    ELSE IF io.n < 0 THEN
        [req |-> Fail(req, ErrnoAfterSink(io.err, sink)),
         diags |-> {report_request_error("vulkan", "pread", id, req, io.err)},
         copy |-> FALSE, held |-> destroy_buffer(staging_held(st))]
    ELSE [req |-> req, diags |-> {}, copy |-> TRUE, held |-> staging_held(st)]

\* handle_gpu_to_file up to the call of submit_copy.
handle_gpu_to_file(id, req, st) ==
    IF ~req.gpu_buffer THEN
        [req |-> Fail(req, EINVAL),
         diags |-> {report_request_error("vulkan", "gpu_to_file", id, req, EINVAL)},
         copy |-> FALSE, held |-> {}]
    ELSE IF st # "ok" THEN
        [req |-> Fail(req, ENOMEM),
         diags |-> create_staging_buffer(st) \cup
                   {report_request_error("vulkan", "create_staging_buffer", id, req, ENOMEM)},
         copy |-> FALSE, held |-> staging_held(st)]
    ELSE [req |-> req, diags |-> {}, copy |-> TRUE, held |-> staging_held(st)]

\* handle_request: device check, then the route by (op, memory side).
handle_request(id, req, dev, st, map, io, sink) ==
    IF ~dev THEN
        [req |-> Fail(req, EINVAL),
         diags |-> {report_request_error("vulkan", "handle_request", id, req, EINVAL)},
         copy |-> FALSE, held |-> {}]
    ELSE IF req.op = "Write" /\ req.src_memory = "Gpu" THEN
        handle_gpu_to_file(id, req, st)
    ELSE IF req.op = "Read" /\ req.dst_memory = "Gpu" THEN
        handle_file_to_gpu(id, req, st, map, io, sink)
    ELSE handle_host_io(id, req, io, sink)

\* The closure VulkanBackend::submit queues, up to submit_copy or the end.
VulkanBackend_job(id, req, dev, st, map, io, sink) ==
    IF req.fd < 0 THEN
        [req |-> Fail(req, EBADF),
         diags |-> {report_request_error("vulkan", "submit", id, req, EBADF)},
         copy |-> FALSE, held |-> {}]
    ELSE IF req.size = 0 THEN
        [req |-> Fail(req, EINVAL),
         diags |-> {report_request_error("vulkan", "submit", id, req, EINVAL)},
         copy |-> FALSE, held |-> {}]
    ELSE IF req.op = "Read" /\ req.dst_memory = "Host" /\ ~req.dst THEN
        [req |-> Fail(req, EINVAL),
         diags |-> {report_request_error("vulkan", "submit", id, req, EINVAL)},
         copy |-> FALSE, held |-> {}]
    ELSE IF req.op = "Write" /\ req.src_memory = "Host" /\ ~req.src THEN
        [req |-> Fail(req, EINVAL),
         diags |-> {report_request_error("vulkan", "submit", id, req, EINVAL)},
         copy |-> FALSE, held |-> {}]
    ELSE handle_request(id, req, dev, st, map, io, sink)

\* submit_copy under vk_mutex_: TRUE when the copy is reported as done,
\* and what is left of the command buffer and the fence on return.
\* A failed fence wait is reported but the function still returns true.
submit_copy(pool, c) ==
    IF ~pool THEN
        [ok |-> FALSE, diags |-> {report_error("vulkan", "submit_copy", EINVAL)},
         held |-> {}]
    ELSE IF c = "ok" THEN
        [ok |-> TRUE, diags |-> {}, held |-> (CopyPair \ {"fence"}) \ {"cmd"}]
    ELSE IF c = "vkWaitForFences" THEN
        [ok |-> TRUE, diags |-> {report_error("vulkan", c, EIO)},
         held |-> (CopyPair \ {"fence"}) \ {"cmd"}]
    ELSE IF c = "vkQueueSubmit" THEN
        [ok |-> FALSE, diags |-> {report_error("vulkan", c, EIO)},
         held |-> (CopyPair \ {"fence"}) \ {"cmd"}]
    ELSE [ok |-> FALSE, diags |-> {report_error("vulkan", c, EIO)}, held |-> {}]

\* Variant: the branch of a failed copy returns without destroy_buffer.
after_copy_leak(id, req, cp, map, io, sink) ==
    IF ~cp.ok THEN
        [req |-> Fail(req, EIO),
         diags |-> cp.diags \cup
                   {report_request_error("vulkan", "vkCmdCopyBuffer", id, req, EIO)},
         held |-> cp.held \cup StagingPair]
    ELSE IF req.op = "Read" THEN
        [req |-> [req EXCEPT !.status = "Ok", !.errno_value = 0], diags |-> cp.diags,
         held |-> cp.held \cup destroy_buffer(StagingPair)]
    ELSE IF ~map THEN
        [req |-> Fail(req, EIO),
         diags |-> cp.diags \cup
                   {report_request_error("vulkan", "vkMapMemory", id, req, EIO)},
         held |-> cp.held \cup destroy_buffer(StagingPair)]
    ELSE IF io.n < 0 THEN
        [req |-> Fail(req, ErrnoAfterSink(io.err, sink)),
         diags |-> cp.diags \cup
                   {report_request_error("vulkan", "pwrite", id, req, io.err)},
         held |-> cp.held \cup destroy_buffer(StagingPair)]
    ELSE [req |-> [req EXCEPT !.status = "Ok", !.errno_value = 0], diags |-> cp.diags,
          held |-> cp.held \cup destroy_buffer(StagingPair)]

\* The rest of handle_file_to_gpu / handle_gpu_to_file after submit_copy:
\* every branch ends with destroy_buffer on the staging pair.
after_copy(id, req, cp, map, io, sink) ==
    IF ~cp.ok THEN
        [req |-> Fail(req, EIO),
         diags |-> cp.diags \cup
                   {report_request_error("vulkan", "vkCmdCopyBuffer", id, req, EIO)},
         held |-> cp.held \cup destroy_buffer(StagingPair)]
    ELSE IF req.op = "Read" THEN
        [req |-> [req EXCEPT !.status = "Ok", !.errno_value = 0], diags |-> cp.diags,
         held |-> cp.held \cup destroy_buffer(StagingPair)]
    ELSE IF ~map THEN
        [req |-> Fail(req, EIO),
         diags |-> cp.diags \cup
                   {report_request_error("vulkan", "vkMapMemory", id, req, EIO)},
         held |-> cp.held \cup destroy_buffer(StagingPair)]
    ELSE IF io.n < 0 THEN
        [req |-> Fail(req, ErrnoAfterSink(io.err, sink)),
         diags |-> cp.diags \cup
                   {report_request_error("vulkan", "pwrite", id, req, io.err)},
         held |-> cp.held \cup destroy_buffer(StagingPair)]
    ELSE [req |-> [req EXCEPT !.status = "Ok", !.errno_value = 0], diags |-> cp.diags,
          held |-> cp.held \cup destroy_buffer(StagingPair)]

\* ----------------------------------------------------------- io_uring job
\* Variant: submit does not look at init_failed_.
IoUringBackend_check_nofail(id, req, failed) ==
    IF \/ req.op = "Read" /\ req.dst_memory = "Gpu"
       \/ req.op = "Write" /\ req.src_memory = "Gpu" THEN
        [queued |-> FALSE, req |-> [Fail(req, EINVAL) EXCEPT !.bytes_transferred = 0],
         diags |-> {report_request_error("io_uring", "submit", id, req, EINVAL)}]
    ELSE IF req.op = "Write" /\ req.compression # "None" THEN
        [queued |-> FALSE, req |-> [Fail(req, ENOTSUP) EXCEPT !.bytes_transferred = 0],
         diags |-> {report_request_error("io_uring", "submit", id, req, ENOTSUP)}]
    ELSE IF req.op = "Read" /\ req.compression = "GDeflate" THEN
        [queued |-> FALSE, req |-> [Fail(req, ENOTSUP) EXCEPT !.bytes_transferred = 0],
         diags |-> {report_request_error("io_uring", "submit", id, req, ENOTSUP)}]
    ELSE [queued |-> TRUE, req |-> req, diags |-> {}]

\* The checks of IoUringBackend::submit; "queued" when the request passes.
IoUringBackend_check(id, req, failed) ==
    IF failed THEN
        [queued |-> FALSE, req |-> [Fail(req, EINVAL) EXCEPT !.bytes_transferred = 0],
         diags |-> {report_request_error("io_uring", "submit", id, req, EINVAL)}]
    ELSE IF \/ req.op = "Read" /\ req.dst_memory = "Gpu"
            \/ req.op = "Write" /\ req.src_memory = "Gpu" THEN
        [queued |-> FALSE, req |-> [Fail(req, EINVAL) EXCEPT !.bytes_transferred = 0],
         diags |-> {report_request_error("io_uring", "submit", id, req, EINVAL)}]
    ELSE IF req.op = "Write" /\ req.compression # "None" THEN
        [queued |-> FALSE, req |-> [Fail(req, ENOTSUP) EXCEPT !.bytes_transferred = 0],
         diags |-> {report_request_error("io_uring", "submit", id, req, ENOTSUP)}]
    ELSE IF req.op = "Read" /\ req.compression = "GDeflate" THEN
        [queued |-> FALSE, req |-> [Fail(req, ENOTSUP) EXCEPT !.bytes_transferred = 0],
         diags |-> {report_request_error("io_uring", "submit", id, req, ENOTSUP)}]
    ELSE [queued |-> TRUE, req |-> req, diags |-> {}]

\* The mapping of a completion-queue entry's res onto the request.
cqe_result(req, io) ==
    IF io.n < 0 THEN
        [req EXCEPT !.status = "IoError", !.errno_value = io.err,
                    !.bytes_transferred = 0]
    ELSE [req EXCEPT !.status = "Ok", !.errno_value = 0, !.bytes_transferred = io.n]

\* ------------------------------------------------------------------ Init
NoJob == [id |-> NoReq, req |-> Request]

\* ------------------------------------------- VulkanBackend init / cleanup
\* VulkanBackendConfig: which handles the caller supplies.
NoConfig == [instance |-> FALSE, device |-> FALSE, command_pool |-> FALSE]
Configs ==
    { NoConfig,
      [instance |-> TRUE, device |-> TRUE, command_pool |-> TRUE],
      [instance |-> TRUE, device |-> TRUE, command_pool |-> FALSE] }

\* The calls of init that can fail when the backend builds its own context.
InitOutcomes == {"ok", "vkCreateInstance", "vkEnumeratePhysicalDevices", "vkCreateDevice"}

NoHandles ==
    [instance_ |-> FALSE, device_ |-> FALSE, command_pool_ |-> FALSE,
     owns_instance_ |-> FALSE, owns_device_ |-> FALSE, owns_command_pool_ |-> FALSE]

\* init, second part: create a command pool when none is there.
ensure_command_pool(m, poolOk) ==
    IF ~m.command_pool_ /\ poolOk
    THEN [m EXCEPT !.command_pool_ = TRUE, !.owns_command_pool_ = TRUE]
    ELSE m

\* init: borrow the caller's handles when a device is supplied, build an
\* own instance and device otherwise; a failed step returns at once.
init(cfg, out, poolOk) ==
    IF cfg.device THEN
        ensure_command_pool(
            [instance_ |-> cfg.instance, device_ |-> TRUE,
             command_pool_ |-> cfg.command_pool,
             owns_instance_ |-> FALSE, owns_device_ |-> FALSE,
             owns_command_pool_ |-> ~cfg.command_pool], poolOk)
    ELSE IF out = "vkCreateInstance" THEN NoHandles
    ELSE IF out \in {"vkEnumeratePhysicalDevices", "vkCreateDevice"} THEN
        [NoHandles EXCEPT !.instance_ = TRUE, !.owns_instance_ = TRUE]
    ELSE
        ensure_command_pool(
            [instance_ |-> TRUE, device_ |-> TRUE, command_pool_ |-> FALSE,
             owns_instance_ |-> TRUE, owns_device_ |-> TRUE,
             owns_command_pool_ |-> TRUE], poolOk)

\* The members after init returned m, for configuration cfg.
Constructed(cfg, m) ==
    /\ config = cfg
    /\ instance_ = m.instance_ /\ device_ = m.device_
    /\ command_pool_ = m.command_pool_
    /\ owns_instance_ = m.owns_instance_ /\ owns_device_ = m.owns_device_
    /\ owns_command_pool_ = m.owns_command_pool_
    /\ destroyed = {}

\* Variant: cleanup destroys the device whether the backend owns it or not.
cleanup_all ==
    (IF owns_command_pool_ /\ command_pool_ THEN {"command_pool"} ELSE {}) \cup
    (IF device_ THEN {"device"} ELSE {}) \cup
    (IF owns_instance_ /\ instance_ THEN {"instance"} ELSE {})

\* cleanup: the handles it destroys.
cleanup ==
    (IF owns_command_pool_ /\ command_pool_ THEN {"command_pool"} ELSE {}) \cup
    (IF owns_device_ /\ device_ THEN {"device"} ELSE {}) \cup
    (IF owns_instance_ /\ instance_ THEN {"instance"} ELSE {})

InitQueue ==
    /\ pending_ = <<>> /\ completed_ = <<>>
    /\ in_flight_ = 0 /\ total_completed_ = 0 /\ total_failed_ = 0
    /\ total_bytes_transferred_ = 0
    /\ wait_mtx_ = "none" /\ wait_cv_ = {}
    /\ cpc = [c \in Clients |-> "idle"]
    /\ to_submit = [c \in Clients |-> <<>>]
    /\ handedBy = [i \in 1..MaxQReq |-> "none"] /\ taken = {}
    /\ lastBatch = [c \in Clients |-> {}]
    /\ preInFlight = [c \in Clients |-> 0]
    /\ batchAlone = [c \in Clients |-> FALSE]
    /\ mtx_ = "none"
    /\ g_error_mutex = "none" /\ g_error_callback = "none"
    /\ lstack = [t \in Clients |-> <<>>]

InitPool ==
    /\ jobs = <<>> /\ stop_ = FALSE
    /\ wpc = [w \in Workers |-> "wait"]
    /\ wreq = [w \in Workers |-> NoJob]

\* State after construction of one backend of any kind.  The ring may have
\* failed to initialise (no dispatcher thread then); the Vulkan backend may
\* have no device or no command pool.
Init ==
    /\ mode = "backend"
    /\ kind \in Kinds
    /\ reqs = <<>> /\ diags = {}
    /\ cbCount = [i \in 1..MaxReq |-> 0]
    /\ final = [i \in 1..MaxReq |-> Request]
    /\ dpc = "alive"
    /\ InitPool
    /\ init_failed \in (IF kind = "ring" THEN BOOLEAN ELSE {FALSE})
    /\ entries_ \in (IF kind = "ring" THEN {1, 2} ELSE {1})
    /\ ring_pending = <<>> /\ batch = <<>> /\ sq = <<>> /\ inKernel = {}
    /\ toReap = 0
    /\ rpc = IF kind = "ring" /\ ~init_failed THEN "wait" ELSE "none"
    /\ \E out \in (IF kind = "vulkan" THEN {"ok", "vkCreateInstance"} ELSE {"vkCreateInstance"}),
          poolOk \in BOOLEAN :
          Constructed(NoConfig, init(NoConfig, out, poolOk))
    /\ vk_mutex_ = "none"
    /\ staging = [w \in Workers |-> {}]
    /\ NoData /\ NoCRequest
    /\ InitQueue

\* The specifications in which a caller drives a backend directly.
Direct == {"backend", "ring", "vk", "diag"}

\* How many requests the caller submits in this specification.
Cap ==
    CASE mode = "ring" -> MaxRingReq
      [] mode = "vk" -> MaxVkReq
      [] mode = "diag" -> MaxDiagReq
      [] mode = "data" -> MaxDataReq
      [] mode = "cq" -> MaxCReq
      [] OTHER -> MaxReq

\* ------------------------------------------------- completion (Spec)
\* The caller's CompletionCallback: records the request it is given.
on_complete(id, req) ==
    /\ cbCount' = [cbCount EXCEPT ![id] = @ + 1]
    /\ final' = [final EXCEPT ![id] = req]

\* A job of the pool ends by invoking the callback: the recording callback
\* at once, the queue's closure step by step on the same worker.
InvokeCallback(w, id, req) ==
    IF mode \in Direct
    THEN /\ on_complete(id, req)
         /\ wpc' = [wpc EXCEPT ![w] = "wait"]
         /\ wreq' = [wreq EXCEPT ![w] = NoJob]
    ELSE /\ wpc' = [wpc EXCEPT ![w] = "cb_record"]
         /\ wreq' = [wreq EXCEPT ![w] = [id |-> id, req |-> req]]
         /\ UNCHANGED <<cbCount, final>>

\* ------------------------------------------------------------ ThreadPool
\* ThreadPool::submit: queue the job.
ThreadPool_submit(id) == jobs' = Append(jobs, id)

\* The sink at work: the queue's clients install none, so default_reporter
\* writes the diagnostic to stderr and errno stays as it was.
InstalledSink == IF mode \in {"queue", "data", "cq"} THEN {"keep"} ELSE SinkEffects

\* worker_loop on the CPU backend: pop one job and run it.
CpuWorker(w) ==
    /\ kind = "cpu" /\ wpc[w] = "wait" /\ jobs # <<>>
    /\ LET id == Head(jobs) IN
       \E r \in { CpuBackend_job(id, reqs[id], io, sink) :
                     io \in IoOutcomes(reqs[id], HostBuffer(reqs[id])),
                     sink \in InstalledSink } :
           /\ jobs' = Tail(jobs)
           /\ diags' = diags \cup r.diags
           /\ InvokeCallback(w, id, r.req)
    /\ UNCHANGED <<cVars, dataVars, ownVars, lockVars, logVars, mode, kind, reqs, dpc, stop_, ringVars, vkVars, queueVars, clientVars>>

\* worker_loop on the Vulkan backend: pop one job and run it up to the
\* completion callback, or up to submit_copy with the staging buffer live.
VkWorker(w) ==
    /\ kind = "vulkan" /\ wpc[w] = "wait" /\ jobs # <<>>
    /\ LET id == Head(jobs) IN
       \E r \in { VulkanBackend_job(id, reqs[id], device_, st, map, io, sink) :
                     st \in StagingOutcomes, map \in BOOLEAN, sink \in SinkEffects,
                     io \in IoOutcomes(reqs[id], TRUE) } :
           /\ jobs' = Tail(jobs)
           /\ diags' = diags \cup r.diags
           /\ IF r.copy
              THEN /\ wpc' = [wpc EXCEPT ![w] = "vk_lock"]
                   /\ wreq' = [wreq EXCEPT ![w] = [id |-> id, req |-> r.req]]
                   /\ UNCHANGED <<cbCount, final>>
              ELSE InvokeCallback(w, id, r.req)
           /\ staging' = [staging EXCEPT ![w] = r.held]
    /\ UNCHANGED <<cVars, dataVars, ownVars, lockVars, logVars, mode, kind, reqs, dpc, stop_, ringVars, device_, command_pool_,
                   vk_mutex_, queueVars, clientVars>>

\* Variant: submit_copy enters without waiting for vk_mutex_.
VkLock_nowait(w) ==
    /\ wpc[w] = "vk_lock"
    /\ vk_mutex_' = w
    /\ wpc' = [wpc EXCEPT ![w] = "vk_copy"]
    /\ UNCHANGED <<cVars, dataVars, ownVars, lockVars, logVars, backendVars, jobs, stop_, wreq, ringVars, device_, command_pool_,
                   staging, queueVars, clientVars>>

\* submit_copy: std::lock_guard on vk_mutex_.
VkLock(w) ==
    /\ wpc[w] = "vk_lock" /\ vk_mutex_ = "none"
    /\ vk_mutex_' = w
    /\ wpc' = [wpc EXCEPT ![w] = "vk_copy"]
    /\ UNCHANGED <<cVars, dataVars, ownVars, lockVars, logVars, backendVars, jobs, stop_, wreq, ringVars, device_, command_pool_,
                   staging, queueVars, clientVars>>

\* submit_copy's body, the unlock, and the rest of the request's handler.
VkCopy(w) ==
    /\ wpc[w] = "vk_copy" /\ vk_mutex_ = w
    /\ \E r \in { after_copy(wreq[w].id, wreq[w].req,
                              submit_copy(command_pool_, c), map, io, sink) :
                     c \in CopyOutcomes, map \in BOOLEAN, sink \in SinkEffects,
                     io \in IoOutcomes(wreq[w].req, TRUE) } :
           /\ diags' = diags \cup r.diags
           /\ InvokeCallback(w, wreq[w].id, r.req)
           /\ staging' = [staging EXCEPT ![w] = r.held]
    /\ vk_mutex_' = "none"
    /\ UNCHANGED <<cVars, dataVars, ownVars, lockVars, logVars, mode, kind, reqs, dpc, jobs, stop_, ringVars, device_,
                   command_pool_, queueVars, clientVars>>

\* Variant: the worker returns as soon as stop_ is set, whatever is queued.
WorkerExit_discard(w) ==
    /\ wpc[w] = "wait" /\ stop_
    /\ wpc' = [wpc EXCEPT ![w] = "exited"]
    /\ UNCHANGED <<cVars, dataVars, ownVars, lockVars, logVars, backendVars, jobs, stop_, wreq, ringVars, vkVars, queueVars, clientVars>>

\* worker_loop: return once stop_ is set and no job is left.
WorkerExit(w) ==
    /\ wpc[w] = "wait" /\ stop_ /\ jobs = <<>>
    /\ wpc' = [wpc EXCEPT ![w] = "exited"]
    /\ UNCHANGED <<cVars, dataVars, ownVars, lockVars, logVars, backendVars, jobs, stop_, wreq, ringVars, vkVars, queueVars, clientVars>>

\* ------------------------------------------------- IoUringBackend worker
SeqToSet(q) == { q[i] : i \in 1..Len(q) }

\* worker_loop: swap the pending FIFO into the local batch.
RingTake ==
    /\ rpc = "wait" /\ ring_pending # <<>>
    /\ batch' = ring_pending /\ ring_pending' = <<>>
    /\ rpc' = "prep"
    /\ UNCHANGED <<cVars, dataVars, ownVars, lockVars, logVars, backendVars, poolVars, init_failed, entries_, sq, inKernel, toReap,
                   vkVars, queueVars, clientVars>>

\* worker_loop: leave once stop_ is set and nothing is pending.
RingExit ==
    /\ rpc = "wait" /\ stop_ /\ ring_pending = <<>>
    /\ rpc' = "exited"
    /\ UNCHANGED <<cVars, dataVars, ownVars, lockVars, logVars, backendVars, poolVars, init_failed, entries_, ring_pending, batch,
                   sq, inKernel, toReap, vkVars, queueVars, clientVars>>

\* Variant: a full submission ring ends the batch, the rest is dropped.
RingPrep_drop ==
    /\ rpc = "prep" /\ batch # <<>>
    /\ LET id == Head(batch) IN
         IF Len(sq) >= entries_
         THEN /\ diags' = diags \cup
                     {report_request_error("io_uring", "io_uring_get_sqe", id, reqs[id], EBUSY)}
              /\ on_complete(id, [Fail(reqs[id], EBUSY) EXCEPT !.bytes_transferred = 0])
              /\ batch' = <<>>
              /\ UNCHANGED sq
         ELSE /\ sq' = Append(sq, id)
              /\ batch' = Tail(batch)
              /\ UNCHANGED <<diags, cbCount, final>>
    /\ UNCHANGED <<cVars, dataVars, ownVars, lockVars, logVars, mode, kind, reqs, dpc, poolVars, init_failed, entries_, ring_pending,
                   rpc, inKernel, toReap, vkVars, queueVars, clientVars>>

\* worker_loop: one item of the batch: io_uring_get_sqe, then either the
\* EBUSY completion or the prepared entry tagged with the tracking record.
RingPrep ==
    /\ rpc = "prep" /\ batch # <<>>
    /\ LET id == Head(batch) IN
         IF Len(sq) >= entries_
         THEN /\ diags' = diags \cup
                     {report_request_error("io_uring", "io_uring_get_sqe", id, reqs[id], EBUSY)}
              /\ on_complete(id, [Fail(reqs[id], EBUSY) EXCEPT !.bytes_transferred = 0])
              /\ UNCHANGED sq
         ELSE /\ sq' = Append(sq, id)
              /\ UNCHANGED <<diags, cbCount, final>>
    /\ batch' = Tail(batch)
    /\ UNCHANGED <<cVars, dataVars, ownVars, lockVars, logVars, mode, kind, reqs, dpc, poolVars, init_failed, entries_, ring_pending,
                   rpc, inKernel, toReap, vkVars, queueVars, clientVars>>

\* worker_loop: io_uring_submit.  On a result <= 0 the loop reports and
\* starts over; the prepared entries stay in the submission ring.
RingSubmit ==
    /\ rpc = "prep" /\ batch = <<>>
    /\ \E accepted \in BOOLEAN :
         LET submitted == IF accepted THEN Len(sq) ELSE -EAGAIN IN
           IF submitted <= 0
           THEN /\ diags' = diags \cup
                       {report_error("io_uring", "io_uring_submit", submitted)}
                /\ rpc' = "wait"
                /\ UNCHANGED <<sq, inKernel, toReap>>
           ELSE /\ inKernel' = inKernel \cup SeqToSet(sq)
                /\ sq' = <<>>
                /\ toReap' = submitted
                /\ rpc' = "drain"
                /\ UNCHANGED diags
    /\ UNCHANGED <<cVars, dataVars, ownVars, lockVars, logVars, mode, kind, reqs, cbCount, final, dpc, poolVars, init_failed,
                   entries_, ring_pending, batch, vkVars, queueVars, clientVars>>

\* worker_loop: io_uring_wait_cqe and the completion of one entry.  A
\* failed wait is reported and ends the drain of this batch.
RingReap ==
    /\ rpc = "drain"
    /\ \/ /\ diags' = diags \cup
                  {report_error("io_uring", "io_uring_wait_cqe", -EINTR)}
          /\ rpc' = "wait" /\ toReap' = 0
          /\ UNCHANGED <<inKernel, cbCount, final>>
       \/ \E id \in inKernel :
           \E r \in { cqe_result(reqs[id], io) :
                         io \in IoOutcomes(reqs[id], HostBuffer(reqs[id])) } :
             /\ on_complete(id, r)
             /\ inKernel' = inKernel \ {id}
             /\ toReap' = toReap - 1
             /\ rpc' = IF toReap = 1 THEN "wait" ELSE "drain"
             /\ UNCHANGED diags
    /\ UNCHANGED <<cVars, dataVars, ownVars, lockVars, logVars, mode, kind, reqs, dpc, poolVars, init_failed, entries_, ring_pending,
                   batch, sq, vkVars, queueVars, clientVars>>

\* ------------------------------------------------------- Backend::submit
\* CpuBackend::submit / VulkanBackend::submit called by the caller.
PoolSubmit(req) ==
    /\ mode \in Direct /\ kind \in {"cpu", "vulkan"}
    /\ dpc = "alive" /\ Len(reqs) < Cap
    /\ reqs' = Append(reqs, req)
    /\ ThreadPool_submit(Len(reqs) + 1)
    /\ UNCHANGED <<cVars, dataVars, ownVars, lockVars, logVars, mode, kind, diags, cbCount, final, dpc, stop_, wpc, wreq,
                   ringVars, vkVars, queueVars, clientVars>>

\* IoUringBackend::submit called by the caller: a rejected request is
\* completed inside the call, an accepted one is queued for the worker.
IoUringBackend_submit(req) ==
    /\ mode \in Direct /\ kind = "ring"
    /\ dpc = "alive" /\ Len(reqs) < Cap
    /\ reqs' = Append(reqs, req)
    /\ LET id == Len(reqs) + 1
           r == IoUringBackend_check(id, req, init_failed) IN
         /\ diags' = diags \cup r.diags
         /\ IF r.queued
            THEN /\ ring_pending' = Append(ring_pending, id)
                 /\ UNCHANGED <<cbCount, final>>
            ELSE /\ on_complete(id, r.req)
                 /\ UNCHANGED ring_pending
    /\ UNCHANGED <<cVars, dataVars, ownVars, lockVars, logVars, mode, kind, dpc, poolVars, init_failed, entries_, rpc, batch, sq,
                   inKernel, toReap, vkVars, queueVars, clientVars>>

\* ------------------------------------------------------------ destructors
\* ~VulkanBackend's body: cleanup() runs before the pool member is destroyed.
VkCleanup ==
    /\ mode \in Direct /\ kind = "vulkan" /\ dpc = "alive"
    /\ dpc' = "cleaned"
    /\ destroyed' = destroyed \cup cleanup
    /\ UNCHANGED <<cVars, dataVars, config, instance_, owns_instance_, owns_device_, owns_command_pool_,
                   lockVars, logVars, mode, kind, reqs, diags, cbCount, final, poolVars,
                   ringVars, vkVars, queueVars, clientVars>>

\* ~ThreadPool / ~IoUringBackend: set stop_ under the lock and notify.
DtorStop ==
    /\ mode \in Direct
    /\ \/ kind \in {"cpu", "ring"} /\ dpc = "alive"
       \/ kind = "vulkan" /\ dpc = "cleaned"
    /\ stop_' = TRUE
    /\ dpc' = "stopping"
    /\ UNCHANGED <<cVars, dataVars, ownVars, lockVars, logVars, mode, kind, reqs, diags, cbCount, final, jobs, wpc, wreq,
                   ringVars, vkVars, queueVars, clientVars>>

\* The joins have returned (the ring is then torn down): destruction is over.
DtorJoin ==
    /\ dpc = "stopping"
    /\ IF kind = "ring" THEN rpc \in {"exited", "none"}
       ELSE \A w \in Workers : wpc[w] = "exited"
    /\ dpc' = "destroyed"
    /\ UNCHANGED <<cVars, dataVars, ownVars, lockVars, logVars, mode, kind, reqs, diags, cbCount, final, poolVars, ringVars,
                   vkVars, queueVars, clientVars>>

\* --------------------------------------------------------------- Spec
Next ==
    \/ \E req \in RequestInputs(kind) : PoolSubmit(req)
    \/ \E req \in RequestInputs(kind) : IoUringBackend_submit(req)
    \/ \E w \in Workers : CpuWorker(w)
    \/ \E w \in Workers : VkWorker(w)
    \/ \E w \in Workers : VkLock(w)
    \/ \E w \in Workers : VkCopy(w)
    \/ \E w \in Workers : WorkerExit(w)
    \/ RingTake \/ RingPrep \/ RingSubmit \/ RingReap \/ RingExit
    \/ VkCleanup \/ DtorStop \/ DtorJoin

Spec == Init /\ [][Next]_vars

\* -------------------------------------------------------------- SpecRing
\* The io_uring backend alone, with batches long enough for a request to
\* follow one that found the submission ring full.
RingInputs == {HostRead, BadFd, GpuRead, [HostWrite EXCEPT !.compression = "FakeUppercase"]}

InitRing ==
    /\ mode = "ring" /\ kind = "ring"
    /\ reqs = <<>> /\ diags = {}
    /\ cbCount = [i \in 1..MaxRingReq |-> 0]
    /\ final = [i \in 1..MaxRingReq |-> Request]
    /\ dpc = "alive"
    /\ InitPool
    /\ init_failed \in BOOLEAN
    /\ entries_ \in {1, 2}
    /\ ring_pending = <<>> /\ batch = <<>> /\ sq = <<>> /\ inKernel = {}
    /\ toReap = 0
    /\ rpc = IF init_failed THEN "none" ELSE "wait"
    /\ Constructed(NoConfig, NoHandles) /\ vk_mutex_ = "none"
    /\ staging = [w \in Workers |-> {}]
    /\ NoData /\ NoCRequest
    /\ InitQueue

NextRing ==
    \/ \E req \in RingInputs : IoUringBackend_submit(req)
    \/ RingTake \/ RingPrep \/ RingSubmit \/ RingReap \/ RingExit
    \/ DtorStop \/ DtorJoin

SpecRing == InitRing /\ [][NextRing]_vars

\* ---------------------------------------------------------------- SpecVk
\* The Vulkan staging backend alone.
VkInputs == {GpuRead, GpuWrite, HostRead, [GpuRead EXCEPT !.gpu_buffer = FALSE]}

InitVk ==
    /\ mode = "vk" /\ kind = "vulkan"
    /\ reqs = <<>> /\ diags = {}
    /\ cbCount = [i \in 1..MaxVkReq |-> 0]
    /\ final = [i \in 1..MaxVkReq |-> Request]
    /\ dpc = "alive"
    /\ InitPool
    /\ init_failed = FALSE /\ entries_ = 1
    /\ ring_pending = <<>> /\ batch = <<>> /\ sq = <<>> /\ inKernel = {}
    /\ toReap = 0 /\ rpc = "none"
    /\ \E cfg \in Configs, out \in InitOutcomes, poolOk \in BOOLEAN :
          Constructed(cfg, init(cfg, out, poolOk))
    /\ vk_mutex_ = "none"
    /\ staging = [w \in Workers |-> {}]
    /\ NoData /\ NoCRequest
    /\ InitQueue

NextVk ==
    \/ \E req \in VkInputs : PoolSubmit(req)
    \/ \E w \in Workers : VkWorker(w)
    \/ \E w \in Workers : VkLock(w)
    \/ \E w \in Workers : VkCopy(w)
    \/ \E w \in Workers : WorkerExit(w)
    \/ VkCleanup \/ DtorStop \/ DtorJoin

SpecVk == InitVk /\ [][NextVk]_vars

\* -------------------------------------------------------------- SpecDiag
\* Any of the three backends, handed requests that end in a diagnostic on
\* one path or another.
ErrCtxProbe == [BadFd EXCEPT !.offset = 12345, !.size = 100]
DiagInputs == {ErrCtxProbe, HostRead, GpuRead, GpuWrite}

InitDiag ==
    /\ mode = "diag"
    /\ kind \in Kinds
    /\ reqs = <<>> /\ diags = {}
    /\ cbCount = [i \in 1..MaxDiagReq |-> 0]
    /\ final = [i \in 1..MaxDiagReq |-> Request]
    /\ dpc = "alive"
    /\ InitPool
    /\ init_failed \in (IF kind = "ring" THEN BOOLEAN ELSE {FALSE})
    /\ entries_ = 1
    /\ ring_pending = <<>> /\ batch = <<>> /\ sq = <<>> /\ inKernel = {}
    /\ toReap = 0
    /\ rpc = IF kind = "ring" /\ ~init_failed THEN "wait" ELSE "none"
    /\ \E out \in (IF kind = "vulkan" THEN {"ok", "vkCreateInstance"} ELSE {"vkCreateInstance"}),
          poolOk \in BOOLEAN :
          Constructed(NoConfig, init(NoConfig, out, poolOk))
    /\ vk_mutex_ = "none"
    /\ staging = [w \in Workers |-> {}]
    /\ NoData /\ NoCRequest
    /\ InitQueue

NextDiag ==
    \/ \E req \in DiagInputs : PoolSubmit(req)
    \/ \E req \in DiagInputs : IoUringBackend_submit(req)
    \/ \E w \in Workers : CpuWorker(w)
    \/ \E w \in Workers : VkWorker(w)
    \/ \E w \in Workers : VkLock(w)
    \/ \E w \in Workers : VkCopy(w)
    \/ \E w \in Workers : WorkerExit(w)
    \/ RingTake \/ RingPrep \/ RingSubmit \/ RingReap \/ RingExit
    \/ VkCleanup \/ DtorStop \/ DtorJoin

SpecDiag == InitDiag /\ [][NextDiag]_vars

\* -------------------------------------------------------------- SpecData
\* Any of the three backends under a caller that hands in one host request
\* at a time and waits for it, with the bytes of the file and of the
\* caller's buffers in the state.
Bytes == {0, 97, 66}      \* NUL, 'a', 'B'
Fillers == {0, 97}        \* what a destination buffer holds when handed in

Min(a, b) == IF a < b THEN a ELSE b
Max(a, b) == IF a > b THEN a ELSE b

\* std::toupper on an unsigned char in the "C" locale.
toupper(c) == IF c \in 97..122 THEN c - 32 ELSE c

\* The result of ::pread / ::pwrite on the regular file: a read returns
\* what the file holds from the offset on, at most size bytes.
kernel_io(f, req, fault) ==
    IF fault THEN [n |-> -1, err |-> EIO]
    ELSE IF req.op = "Read"
    THEN [n |-> Min(req.size, Max(Len(f) - req.offset, 0)), err |-> 0]
    ELSE [n |-> req.size, err |-> 0]

\* The destination buffer after ::pread copied n bytes into it.
pread(f, dst, req, n) ==
    [i \in 1..Len(dst) |-> IF i <= n THEN f[req.offset + i] ELSE dst[i]]

\* The file after ::pwrite copied n bytes of src to the offset.
pwrite(f, src, req, n) ==
    [i \in 1..Max(Len(f), req.offset + n) |->
        IF i > req.offset /\ i <= req.offset + n THEN src[i - req.offset]
        ELSE IF i <= Len(f) THEN f[i] ELSE 0]

\* CpuBackend: c[io_bytes] = '\0' after a read shorter than size.
nul_terminate(c, req, n) == IF n < req.size THEN [c EXCEPT ![n + 1] = 0] ELSE c

\* CpuBackend: for (i = 0; i < size && c[i] != '\0'; ++i) c[i] = toupper(c[i]).
RECURSIVE fake_uppercase(_, _, _)
fake_uppercase(c, i, size) ==
    IF i > size \/ c[i] = 0 THEN c
    ELSE fake_uppercase([c EXCEPT ![i] = toupper(c[i])], i + 1, size)

\* Variant: the transform does not look at the status.
cpu_transform_anystatus(c, req, done) ==
    IF req.op = "Read" /\ req.compression = "FakeUppercase"
    THEN fake_uppercase(c, 1, req.size) ELSE c

\* CpuBackend: the demo transform, guarded by op, status and compression.
cpu_transform(c, req, done) ==
    IF req.op = "Read" /\ done.status = "Ok" /\ req.compression = "FakeUppercase"
    THEN fake_uppercase(c, 1, req.size) ELSE c

\* What the backend at hand does with a host request, given the kernel's
\* result: the final request and the diagnostics.
data_job(id, req, io, sink) ==
    CASE kind = "cpu" -> CpuBackend_job(id, req, io, sink)
      [] kind = "vulkan" ->
           LET r == VulkanBackend_job(id, req, device_, "ok", TRUE, io, sink)
           IN  [req |-> r.req, diags |-> r.diags]
      [] kind = "ring" ->
           LET c == IoUringBackend_check(id, req, init_failed)
           IN  IF c.queued THEN [req |-> cqe_result(req, io), diags |-> {}]
               ELSE [req |-> c.req, diags |-> c.diags]

\* The caller's buffer once the request is done: the bytes read, and on
\* the CPU backend the terminator and the transform.
buffer_after(req, f, buf, io, done) ==
    LET got == IF req.op = "Read" /\ done.status = "Ok"
               THEN pread(f, buf, req, io.n) ELSE buf
        c == IF kind = "cpu" /\ req.op = "Read" /\ done.status = "Ok"
             THEN nul_terminate(got, req, io.n) ELSE got
    IN  IF kind = "cpu" THEN cpu_transform(c, req, done) ELSE c

\* The file once the request is done.
file_after(req, f, buf, io, done) ==
    IF req.op = "Write" /\ done.status = "Ok" THEN pwrite(f, buf, req, io.n) ELSE f

\* A read of 1..MaxLen bytes into a buffer of that size, or a write of a
\* buffer of 1..MaxLen bytes, at offset 0, with or without the transform.
DataInputs ==
    { [req |-> [HostRead EXCEPT !.size = n, !.compression = c],
       buf |-> [i \in 1..n |-> fill]] :
         n \in 1..MaxLen, c \in {"None", "FakeUppercase"}, fill \in Fillers } \cup
    { [req |-> [HostWrite EXCEPT !.size = Len(b), !.compression = c], buf |-> b] :
         b \in UNION { [1..n -> Bytes] : n \in 1..MaxLen },
         c \in {"None", "FakeUppercase"} }

\* Queue::enqueue and submit_all of one request, after wait_all returned
\* for the one before.
data_submit(in) ==
    /\ mode = "data" /\ Len(reqs) < MaxDataReq
    /\ \A id \in 1..Len(reqs) : cbCount[id] = 1
    /\ reqs' = Append(reqs, in.req)
    /\ hostbuf' = Append(hostbuf, in.buf)
    /\ \E fault \in BOOLEAN : io_fault' = Append(io_fault, fault)
    /\ in_flight_' = in_flight_ + 1
    /\ UNCHANGED <<cVars, ownVars, lockVars, logVars, mode, kind, diags, cbCount, final, dpc,
                   poolVars, ringVars, vkVars, file, pending_, completed_,
                   total_completed_, total_failed_, total_bytes_transferred_,
                   wait_mtx_, wait_cv_, clientVars>>

\* The backend runs the request and invokes the queue's completion closure.
data_complete ==
    /\ mode = "data" /\ reqs # <<>> /\ cbCount[Len(reqs)] = 0
    /\ LET id == Len(reqs)
           req == reqs[id]
           io == kernel_io(file, req, io_fault[id])
       IN  \E sink \in InstalledSink :
             LET r == data_job(id, req, io, sink) IN
               /\ diags' = diags \cup r.diags
               /\ hostbuf' = [hostbuf EXCEPT ![id] = buffer_after(req, file, @, io, r.req)]
               /\ file' = file_after(req, file, hostbuf[id], io, r.req)
               /\ on_complete(id, r.req)
               /\ completed_' = Append(completed_, id)
               /\ total_completed_' = total_completed_ + 1
               /\ total_failed_' = total_failed_ + (IF r.req.status # "Ok" THEN 1 ELSE 0)
               /\ total_bytes_transferred_' =
                      total_bytes_transferred_ + r.req.bytes_transferred
               /\ in_flight_' = in_flight_ - 1
    /\ UNCHANGED <<cVars, ownVars, lockVars, logVars, mode, kind, reqs, dpc, poolVars, ringVars,
                   vkVars, io_fault, pending_, wait_mtx_, wait_cv_, clientVars>>

InitData ==
    /\ mode = "data"
    /\ kind \in Kinds
    /\ reqs = <<>> /\ diags = {}
    /\ cbCount = [i \in 1..MaxDataReq |-> 0]
    /\ final = [i \in 1..MaxDataReq |-> Request]
    /\ dpc = "alive"
    /\ InitPool
    /\ init_failed = FALSE
    /\ entries_ = 1
    /\ ring_pending = <<>> /\ batch = <<>> /\ sq = <<>> /\ inKernel = {}
    /\ toReap = 0
    /\ rpc = IF kind = "ring" THEN "wait" ELSE "none"
    /\ \E out \in (IF kind = "vulkan" THEN {"ok"} ELSE {"vkCreateInstance"}) :
          Constructed(NoConfig, init(NoConfig, out, TRUE))
    /\ vk_mutex_ = "none"
    /\ staging = [w \in Workers |-> {}]
    /\ NoData /\ NoCRequest
    /\ InitQueue

NextData ==
    \/ \E in \in DataInputs : data_submit(in)
    \/ data_complete

SpecData == InitData /\ [][NextData]_vars

\* The backend has nothing left that it could do on its own.
BackendIdle ==
    /\ jobs = <<>>
    /\ \A w \in Workers : wpc[w] \in {"wait", "exited"}
    /\ ring_pending = <<>>
    /\ rpc \in {"wait", "exited", "none"}

Submitted == 1..Len(reqs)

TypeOK ==
    /\ kind \in Kinds
    /\ Len(reqs) <= Cap
    /\ \A id \in Submitted : cbCount[id] \in 0..3

\* ===================================================================
\* Queue::Impl on the CPU backend
\* ===================================================================

\* The requests the queue's clients enqueue: a read of one byte, which
\* succeeds or fails.
QueueInputs == {[HostRead EXCEPT !.size = 1]}

InSubmit(c) == cpc[c] = "sub_item"
InWait(c) == cpc[c] \in {"wait_check", "wait_sleep", "wait_blocked", "wait_ret"}

\* Queue::Impl::enqueue: push_back under mtx_.
enqueue(c, req) ==
    /\ cpc[c] = "idle" /\ Len(reqs) < MaxQReq
    /\ reqs' = Append(reqs, req)
    /\ pending_' = Append(pending_, Len(reqs) + 1)
    /\ UNCHANGED <<cVars, dataVars, ownVars, lockVars, logVars, mode, kind, diags, cbCount, final, dpc, poolVars, ringVars, vkVars,
                   completed_, in_flight_, total_completed_, total_failed_,
                   total_bytes_transferred_, wait_mtx_, wait_cv_, clientVars>>

\* Variant: submit_all copies pending_ into to_submit and leaves it in place.
submit_all_copy(c) ==
    /\ cpc[c] = "idle" /\ pending_ # <<>>
    /\ to_submit' = [to_submit EXCEPT ![c] = pending_]
    /\ cpc' = [cpc EXCEPT ![c] = "sub_item"]
    /\ lastBatch' = [lastBatch EXCEPT ![c] = SeqToSet(pending_)]
    /\ preInFlight' = [preInFlight EXCEPT ![c] = in_flight_]
    /\ batchAlone' = [d \in Clients |->
                        IF d = c
                        THEN in_flight_ = 0 /\ \A e \in Clients \ {c} : ~InSubmit(e)
                        ELSE FALSE]
    /\ UNCHANGED <<cVars, dataVars, ownVars, lockVars, logVars, backendVars, poolVars, ringVars, vkVars, pending_, completed_,
                   in_flight_, total_completed_, total_failed_,
                   total_bytes_transferred_, wait_mtx_, wait_cv_, handedBy, taken>>

\* Queue::Impl::submit_all: swap pending_ into to_submit under mtx_.  (With
\* nothing pending the call changes nothing.)  The history variables note
\* the batch, in_flight() right before it, and whether the batch has the
\* queue to itself.
submit_all(c) ==
    /\ cpc[c] = "idle" /\ pending_ # <<>>
    /\ to_submit' = [to_submit EXCEPT ![c] = pending_]
    /\ pending_' = <<>>
    /\ cpc' = [cpc EXCEPT ![c] = "sub_item"]
    /\ lastBatch' = [lastBatch EXCEPT ![c] = SeqToSet(pending_)]
    /\ preInFlight' = [preInFlight EXCEPT ![c] = in_flight_]
    /\ batchAlone' = [d \in Clients |->
                        IF d = c
                        THEN in_flight_ = 0 /\ \A e \in Clients \ {c} : ~InSubmit(e)
                        ELSE FALSE]
    /\ UNCHANGED <<cVars, dataVars, ownVars, lockVars, logVars, backendVars, poolVars, ringVars, vkVars, completed_, in_flight_,
                   total_completed_, total_failed_, total_bytes_transferred_,
                   wait_mtx_, wait_cv_, handedBy, taken>>

\* submit_all, loop body for one request: in_flight_.fetch_add(1, relaxed),
\* then backend_->submit(req, closure), which queues the job on the pool.
submit_all_item(c) ==
    /\ cpc[c] = "sub_item"
    /\ in_flight_' = in_flight_ + 1
    /\ ThreadPool_submit(Head(to_submit[c]))
    /\ handedBy' = [handedBy EXCEPT ![Head(to_submit[c])] = c]
    /\ to_submit' = [to_submit EXCEPT ![c] = Tail(@)]
    /\ cpc' = [cpc EXCEPT ![c] = IF Tail(to_submit[c]) = <<>> THEN "idle" ELSE "sub_item"]
    /\ UNCHANGED <<cVars, dataVars, ownVars, lockVars, logVars, backendVars, stop_, wpc, wreq, ringVars, vkVars, pending_, completed_,
                   total_completed_, total_failed_, total_bytes_transferred_,
                   wait_mtx_, wait_cv_, taken, lastBatch, preInFlight, batchAlone>>

\* Variant: a wait without a predicate.
wait_predicate_none == TRUE

\* The predicate of wait_cv_.wait in wait_all.
wait_predicate == in_flight_ = 0

\* Queue::Impl::wait_all: std::unique_lock on wait_mtx_.
wait_all(c) ==
    /\ cpc[c] = "idle" /\ wait_mtx_ = "none"
    /\ wait_mtx_' = c
    /\ cpc' = [cpc EXCEPT ![c] = "wait_check"]
    /\ UNCHANGED <<cVars, dataVars, ownVars, lockVars, logVars, backendVars, poolVars, ringVars, vkVars, pending_, completed_,
                   in_flight_, total_completed_, total_failed_,
                   total_bytes_transferred_, wait_cv_, to_submit, handedBy, taken,
                   lastBatch, preInFlight, batchAlone>>

\* wait_cv_.wait: evaluate the predicate with the lock held.
wait_all_check(c) ==
    /\ cpc[c] = "wait_check" /\ wait_mtx_ = c
    /\ cpc' = [cpc EXCEPT ![c] = IF wait_predicate THEN "wait_ret" ELSE "wait_sleep"]
    /\ UNCHANGED <<cVars, dataVars, ownVars, lockVars, logVars, backendVars, poolVars, ringVars, vkVars, pending_, completed_,
                   in_flight_, total_completed_, total_failed_,
                   total_bytes_transferred_, wait_mtx_, wait_cv_, to_submit,
                   handedBy, taken, lastBatch, preInFlight, batchAlone>>

\* wait_cv_.wait: the predicate was false; release the lock and block, as
\* one atomic step of the condition variable.
wait_all_sleep(c) ==
    /\ cpc[c] = "wait_sleep" /\ wait_mtx_ = c
    /\ cpc' = [cpc EXCEPT ![c] = "wait_blocked"]
    /\ wait_mtx_' = "none"
    /\ wait_cv_' = wait_cv_ \cup {c}
    /\ UNCHANGED <<cVars, dataVars, ownVars, lockVars, logVars, backendVars, poolVars, ringVars, vkVars, pending_, completed_,
                   in_flight_, total_completed_, total_failed_,
                   total_bytes_transferred_, to_submit, handedBy, taken,
                   lastBatch, preInFlight, batchAlone>>

\* wait_cv_.wait: a notified waiter takes the lock again and re-evaluates.
wait_all_wake(c) ==
    /\ cpc[c] = "wait_blocked" /\ c \notin wait_cv_ /\ wait_mtx_ = "none"
    /\ wait_mtx_' = c
    /\ cpc' = [cpc EXCEPT ![c] = "wait_check"]
    /\ UNCHANGED <<cVars, dataVars, ownVars, lockVars, logVars, backendVars, poolVars, ringVars, vkVars, pending_, completed_,
                   in_flight_, total_completed_, total_failed_,
                   total_bytes_transferred_, wait_cv_, to_submit, handedBy, taken,
                   lastBatch, preInFlight, batchAlone>>

\* wait_cv_.wait: a spurious wake-up, which the condition variable allows.
wait_all_spurious(c) ==
    /\ cpc[c] = "wait_blocked" /\ c \in wait_cv_ /\ wait_mtx_ = "none"
    /\ wait_mtx_' = c
    /\ wait_cv_' = wait_cv_ \ {c}
    /\ cpc' = [cpc EXCEPT ![c] = "wait_check"]
    /\ UNCHANGED <<cVars, dataVars, ownVars, lockVars, logVars, backendVars, poolVars, ringVars, vkVars, pending_, completed_,
                   in_flight_, total_completed_, total_failed_,
                   total_bytes_transferred_, to_submit, handedBy, taken,
                   lastBatch, preInFlight, batchAlone>>

\* wait_all returns: the unique_lock releases wait_mtx_.
wait_all_return(c) ==
    /\ cpc[c] = "wait_ret" /\ wait_mtx_ = c
    /\ wait_mtx_' = "none"
    /\ cpc' = [cpc EXCEPT ![c] = "idle"]
    /\ UNCHANGED <<cVars, dataVars, ownVars, lockVars, logVars, backendVars, poolVars, ringVars, vkVars, pending_, completed_,
                   in_flight_, total_completed_, total_failed_,
                   total_bytes_transferred_, wait_cv_, to_submit, handedBy, taken,
                   lastBatch, preInFlight, batchAlone>>

\* What a call of take_completed made now returns: the completed list.
take_completed_result == completed_

\* Variant: take_completed returns a copy and leaves completed_ in place.
take_completed_keep(c) ==
    /\ cpc[c] = "idle"
    /\ taken' = taken \cup SeqToSet(completed_)
    /\ UNCHANGED <<cVars, dataVars, ownVars, lockVars, logVars, backendVars, poolVars, ringVars, vkVars, pending_, completed_,
                   in_flight_, total_completed_, total_failed_,
                   total_bytes_transferred_, wait_mtx_, wait_cv_, cpc, to_submit,
                   handedBy, lastBatch, preInFlight, batchAlone>>

\* Queue::Impl::take_completed: swap completed_ out under mtx_.  (With an
\* empty list the call returns an empty list and changes nothing.)
take_completed(c) ==
    /\ cpc[c] = "idle"
    /\ taken' = taken \cup SeqToSet(completed_)
    /\ completed_' = <<>>
    /\ UNCHANGED <<cVars, dataVars, ownVars, lockVars, logVars, backendVars, poolVars, ringVars, vkVars, pending_, in_flight_,
                   total_completed_, total_failed_, total_bytes_transferred_,
                   wait_mtx_, wait_cv_, cpc, to_submit, handedBy, lastBatch,
                   preInFlight, batchAlone>>

\* ------------------------------------------ the completion closure
\* Variant: the closure counts every completion as a failure.
closure_record_allfail(w) ==
    /\ wpc[w] = "cb_record"
    /\ on_complete(wreq[w].id, wreq[w].req)
    /\ completed_' = Append(completed_, wreq[w].id)
    /\ total_completed_' = total_completed_ + 1
    /\ total_failed_' = total_failed_ + 1
    /\ total_bytes_transferred_' =
           total_bytes_transferred_ + wreq[w].req.bytes_transferred
    /\ wpc' = [wpc EXCEPT ![w] = "cb_dec"]
    /\ UNCHANGED <<cVars, dataVars, ownVars, lockVars, logVars, mode, kind, reqs, diags, dpc, jobs, stop_, wreq, ringVars, vkVars,
                   pending_, in_flight_, wait_mtx_, wait_cv_, clientVars>>

\* [this](Request& completed_req): push_back onto completed_ under mtx_,
\* then the three relaxed fetch_add on the totals.
closure_record(w) ==
    /\ wpc[w] = "cb_record"
    /\ on_complete(wreq[w].id, wreq[w].req)
    /\ completed_' = Append(completed_, wreq[w].id)
    /\ total_completed_' = total_completed_ + 1
    /\ total_failed_' = total_failed_ + (IF wreq[w].req.status # "Ok" THEN 1 ELSE 0)
    /\ total_bytes_transferred_' =
           total_bytes_transferred_ + wreq[w].req.bytes_transferred
    /\ wpc' = [wpc EXCEPT ![w] = "cb_dec"]
    /\ UNCHANGED <<cVars, dataVars, ownVars, lockVars, logVars, mode, kind, reqs, diags, dpc, jobs, stop_, wreq, ringVars, vkVars,
                   pending_, in_flight_, wait_mtx_, wait_cv_, clientVars>>

\* Variant: the closure of a failed request returns before the decrement.
closure_dec_okonly(w) ==
    /\ wpc[w] = "cb_dec"
    /\ in_flight_' = IF wreq[w].req.status = "Ok" THEN in_flight_ - 1 ELSE in_flight_
    /\ IF in_flight_' = 0 /\ wreq[w].req.status = "Ok"
       THEN wpc' = [wpc EXCEPT ![w] = "cb_notify"] /\ UNCHANGED wreq
       ELSE wpc' = [wpc EXCEPT ![w] = "wait"] /\ wreq' = [wreq EXCEPT ![w] = NoJob]
    /\ UNCHANGED <<cVars, dataVars, ownVars, lockVars, logVars, backendVars, jobs, stop_, ringVars, vkVars, pending_, completed_,
                   total_completed_, total_failed_, total_bytes_transferred_,
                   wait_mtx_, wait_cv_, clientVars>>

\* in_flight_.fetch_sub(1, acq_rel); the closure is over unless this was
\* the last request in flight.
closure_dec(w) ==
    /\ wpc[w] = "cb_dec"
    /\ in_flight_' = in_flight_ - 1
    /\ IF in_flight_ - 1 = 0
       THEN wpc' = [wpc EXCEPT ![w] = "cb_notify"] /\ UNCHANGED wreq
       ELSE wpc' = [wpc EXCEPT ![w] = "wait"] /\ wreq' = [wreq EXCEPT ![w] = NoJob]
    /\ UNCHANGED <<cVars, dataVars, ownVars, lockVars, logVars, backendVars, jobs, stop_, ringVars, vkVars, pending_, completed_,
                   total_completed_, total_failed_, total_bytes_transferred_,
                   wait_mtx_, wait_cv_, clientVars>>

\* Variant: notify_all without taking wait_mtx_.
closure_notify_unlocked(w) ==
    /\ wpc[w] = "cb_notify"
    /\ wait_cv_' = {}
    /\ wpc' = [wpc EXCEPT ![w] = "wait"]
    /\ wreq' = [wreq EXCEPT ![w] = NoJob]
    /\ UNCHANGED <<cVars, dataVars, ownVars, lockVars, logVars, backendVars, jobs, stop_, ringVars, vkVars, pending_, completed_,
                   in_flight_, total_completed_, total_failed_,
                   total_bytes_transferred_, wait_mtx_, clientVars>>

\* std::lock_guard on wait_mtx_, then wait_cv_.notify_all().
closure_notify(w) ==
    /\ wpc[w] = "cb_notify" /\ wait_mtx_ = "none"
    /\ wait_cv_' = {}
    /\ wpc' = [wpc EXCEPT ![w] = "wait"]
    /\ wreq' = [wreq EXCEPT ![w] = NoJob]
    /\ UNCHANGED <<cVars, dataVars, ownVars, lockVars, logVars, backendVars, jobs, stop_, ringVars, vkVars, pending_, completed_,
                   in_flight_, total_completed_, total_failed_,
                   total_bytes_transferred_, wait_mtx_, clientVars>>

\* ------------------------------------------------------------ SpecQueue
InitQ ==
    /\ mode = "queue" /\ kind = "cpu"
    /\ reqs = <<>> /\ diags = {}
    /\ cbCount = [i \in 1..MaxQReq |-> 0]
    /\ final = [i \in 1..MaxQReq |-> Request]
    /\ dpc = "alive"
    /\ InitPool
    /\ init_failed = FALSE /\ entries_ = 1
    /\ ring_pending = <<>> /\ batch = <<>> /\ sq = <<>> /\ inKernel = {}
    /\ toReap = 0 /\ rpc = "none"
    /\ Constructed(NoConfig, NoHandles) /\ vk_mutex_ = "none"
    /\ staging = [w \in Workers |-> {}]
    /\ NoData /\ NoCRequest
    /\ InitQueue

\* Both client threads enqueue and submit; one of them also waits for the
\* queue to drain and collects the completed requests.
Waiters == {"c1"}

ClientNext ==
    \/ \E c \in Clients, req \in QueueInputs : enqueue(c, req)
    \/ \E c \in Clients : submit_all(c)
    \/ \E c \in Waiters : wait_all(c)
    \/ \E c \in Waiters : take_completed(c)

NextQ ==
    \/ ClientNext
    \/ \E c \in Clients : submit_all_item(c)
    \/ \E c \in Clients : wait_all_check(c)
    \/ \E c \in Clients : wait_all_sleep(c)
    \/ \E c \in Clients : wait_all_wake(c)
    \/ \E c \in Clients : wait_all_spurious(c)
    \/ \E c \in Clients : wait_all_return(c)
    \/ \E w \in Workers : CpuWorker(w)
    \/ \E w \in Workers : closure_record(w)
    \/ \E w \in Workers : closure_dec(w)
    \/ \E w \in Workers : closure_notify(w)

SpecQueue == InitQ /\ [][NextQ]_vars

\* -------------------------------------------------------- FairSpecQueue
\* One thread submits and every client thread may wait.  Threads that are
\* running keep running: a worker finishes the job and the closure it
\* started, a client finishes the submit_all or wait_all it is in, and a
\* thread that needs wait_mtx_ gets it if it is free again and again.
\* Nothing obliges a client to start a call, and nothing obliges the
\* condition variable to wake a waiter that was not notified.
Submitter == "c1"

\* What the submitter enqueues: a read the CPU backend rejects, whose
\* completion does not depend on the file.
FairInputs == {BadFd}

NextFair ==
    \/ \E req \in FairInputs : enqueue(Submitter, req)
    \/ submit_all(Submitter)
    \/ submit_all_item(Submitter)
    \/ \E c \in Clients : wait_all(c)
    \/ \E c \in Clients : wait_all_check(c)
    \/ \E c \in Clients : wait_all_sleep(c)
    \/ \E c \in Clients : wait_all_wake(c)
    \/ \E c \in Clients : wait_all_return(c)
    \/ \E w \in Workers : CpuWorker(w)
    \/ \E w \in Workers : closure_record(w)
    \/ \E w \in Workers : closure_dec(w)
    \/ \E w \in Workers : closure_notify(w)

Fairness ==
    /\ WF_vars(submit_all_item(Submitter))
    /\ \A w \in Workers :
          /\ WF_vars(CpuWorker(w))
          /\ WF_vars(closure_record(w))
          /\ WF_vars(closure_dec(w))
          /\ SF_vars(closure_notify(w))
    /\ \A c \in Clients :
          /\ WF_vars(wait_all_check(c))
          /\ WF_vars(wait_all_sleep(c))
          /\ SF_vars(wait_all_wake(c))
          /\ WF_vars(wait_all_return(c))

FairSpecQueue == InitQ /\ [][NextFair]_vars /\ Fairness

\* ------------------------------------------------------------ SpecLocks
\* The queue with the two mutexes of Queue::Impl taken and released in
\* separate steps: a thread that wants mtx_ or wait_mtx_ waits until the
\* mutex is free, and holds it until the end of the scope of its guard.

\* enqueue: std::lock_guard on mtx_.
enqueue_lock(c) ==
    /\ cpc[c] = "idle" /\ Len(reqs) < MaxQReq /\ mtx_ = "none"
    /\ mtx_' = c
    /\ cpc' = [cpc EXCEPT ![c] = "enq_locked"]
    /\ UNCHANGED <<cVars, dataVars, ownVars, logVars, backendVars, poolVars, ringVars, vkVars, queueVars,
                   to_submit, handedBy, taken, lastBatch, preInFlight, batchAlone>>

\* enqueue: push_back, and the guard releases mtx_ on return.
enqueue_push(c, req) ==
    /\ cpc[c] = "enq_locked" /\ mtx_ = c
    /\ reqs' = Append(reqs, req)
    /\ pending_' = Append(pending_, Len(reqs) + 1)
    /\ mtx_' = "none"
    /\ cpc' = [cpc EXCEPT ![c] = "idle"]
    /\ UNCHANGED <<cVars, dataVars, ownVars, logVars, mode, kind, diags, cbCount, final, dpc, poolVars, ringVars,
                   vkVars, completed_, in_flight_, total_completed_, total_failed_,
                   total_bytes_transferred_, wait_mtx_, wait_cv_, to_submit,
                   handedBy, taken, lastBatch, preInFlight, batchAlone>>

\* submit_all: std::lock_guard on mtx_ in the inner block.
submit_all_lock(c) ==
    /\ cpc[c] = "idle" /\ mtx_ = "none"
    /\ mtx_' = c
    /\ cpc' = [cpc EXCEPT ![c] = "sub_locked"]
    /\ UNCHANGED <<cVars, dataVars, ownVars, logVars, backendVars, poolVars, ringVars, vkVars, queueVars,
                   to_submit, handedBy, taken, lastBatch, preInFlight, batchAlone>>

\* submit_all: to_submit.swap(pending_), and the block ends: mtx_ is
\* released before the loop over to_submit starts.
submit_all_swap(c) ==
    /\ cpc[c] = "sub_locked" /\ mtx_ = c
    /\ to_submit' = [to_submit EXCEPT ![c] = pending_]
    /\ pending_' = <<>>
    /\ mtx_' = "none"
    /\ cpc' = [cpc EXCEPT ![c] = IF pending_ = <<>> THEN "idle" ELSE "sub_item"]
    /\ UNCHANGED <<cVars, dataVars, ownVars, logVars, backendVars, poolVars, ringVars, vkVars, completed_,
                   in_flight_, total_completed_, total_failed_,
                   total_bytes_transferred_, wait_mtx_, wait_cv_, handedBy, taken,
                   lastBatch, preInFlight, batchAlone>>

\* take_completed: std::lock_guard on mtx_.
take_completed_lock(c) ==
    /\ cpc[c] = "idle" /\ mtx_ = "none"
    /\ mtx_' = c
    /\ cpc' = [cpc EXCEPT ![c] = "take_locked"]
    /\ UNCHANGED <<cVars, dataVars, ownVars, logVars, backendVars, poolVars, ringVars, vkVars, queueVars,
                   to_submit, handedBy, taken, lastBatch, preInFlight, batchAlone>>

\* Variant: take_completed returns a copy of completed_ and leaves the list.
take_completed_swap_copy(c) ==
    /\ cpc[c] = "take_locked" /\ mtx_ = c
    /\ taken' = taken \cup SeqToSet(completed_)
    /\ mtx_' = "none"
    /\ cpc' = [cpc EXCEPT ![c] = "idle"]
    /\ UNCHANGED <<cVars, dataVars, ownVars, logVars, backendVars, poolVars, ringVars, vkVars, pending_, completed_,
                   in_flight_, total_completed_, total_failed_,
                   total_bytes_transferred_, wait_mtx_, wait_cv_, to_submit,
                   handedBy, lastBatch, preInFlight, batchAlone>>

\* take_completed: result.swap(completed_), and the guard releases mtx_.
take_completed_swap(c) ==
    /\ cpc[c] = "take_locked" /\ mtx_ = c
    /\ taken' = taken \cup SeqToSet(completed_)
    /\ completed_' = <<>>
    /\ mtx_' = "none"
    /\ cpc' = [cpc EXCEPT ![c] = "idle"]
    /\ UNCHANGED <<cVars, dataVars, ownVars, logVars, backendVars, poolVars, ringVars, vkVars, pending_,
                   in_flight_, total_completed_, total_failed_,
                   total_bytes_transferred_, wait_mtx_, wait_cv_, to_submit,
                   handedBy, lastBatch, preInFlight, batchAlone>>

\* The completion closure: std::lock_guard on mtx_ in the inner block.
closure_lock(w) ==
    /\ wpc[w] = "cb_record" /\ mtx_ = "none"
    /\ mtx_' = w
    /\ wpc' = [wpc EXCEPT ![w] = "cb_locked"]
    /\ UNCHANGED <<cVars, dataVars, ownVars, logVars, backendVars, jobs, stop_, wreq, ringVars, vkVars, queueVars,
                   clientVars>>

\* Variant: the guard on mtx_ lives to the end of the closure, so the
\* counters and the notification are inside its scope.
closure_push_hold(w) ==
    /\ wpc[w] = "cb_locked" /\ mtx_ = w
    /\ on_complete(wreq[w].id, wreq[w].req)
    /\ completed_' = Append(completed_, wreq[w].id)
    /\ total_completed_' = total_completed_ + 1
    /\ total_failed_' = total_failed_ + (IF wreq[w].req.status # "Ok" THEN 1 ELSE 0)
    /\ total_bytes_transferred_' =
           total_bytes_transferred_ + wreq[w].req.bytes_transferred
    /\ wpc' = [wpc EXCEPT ![w] = "cb_dec"]
    /\ UNCHANGED <<cVars, dataVars, ownVars, lockVars, logVars, mode, kind, reqs, diags, dpc, jobs, stop_, wreq,
                   ringVars, vkVars, pending_, in_flight_, wait_mtx_, wait_cv_,
                   clientVars>>

\* The completion closure: push_back onto completed_, the block ends and
\* releases mtx_, then the three relaxed fetch_add on the totals.
closure_push(w) ==
    /\ wpc[w] = "cb_locked" /\ mtx_ = w
    /\ on_complete(wreq[w].id, wreq[w].req)
    /\ completed_' = Append(completed_, wreq[w].id)
    /\ mtx_' = "none"
    /\ total_completed_' = total_completed_ + 1
    /\ total_failed_' = total_failed_ + (IF wreq[w].req.status # "Ok" THEN 1 ELSE 0)
    /\ total_bytes_transferred_' =
           total_bytes_transferred_ + wreq[w].req.bytes_transferred
    /\ wpc' = [wpc EXCEPT ![w] = "cb_dec"]
    /\ UNCHANGED <<cVars, dataVars, ownVars, logVars, mode, kind, reqs, diags, dpc, jobs, stop_, wreq, ringVars,
                   vkVars, pending_, in_flight_, wait_mtx_, wait_cv_, clientVars>>

\* The completion closure: std::lock_guard on wait_mtx_.
closure_notify_lock(w) ==
    /\ wpc[w] = "cb_notify" /\ wait_mtx_ = "none"
    /\ wait_mtx_' = w
    /\ wpc' = [wpc EXCEPT ![w] = "cb_notify_locked"]
    /\ UNCHANGED <<cVars, dataVars, ownVars, lockVars, logVars, backendVars, jobs, stop_, wreq, ringVars, vkVars,
                   pending_, completed_, in_flight_, total_completed_, total_failed_,
                   total_bytes_transferred_, wait_cv_, clientVars>>

\* The completion closure: wait_cv_.notify_all(), and the guard releases
\* wait_mtx_.
closure_notify_all(w) ==
    /\ wpc[w] = "cb_notify_locked" /\ wait_mtx_ = w
    /\ wait_cv_' = {}
    /\ wait_mtx_' = "none"
    /\ wpc' = [wpc EXCEPT ![w] = "wait"]
    /\ wreq' = [wreq EXCEPT ![w] = NoJob]
    /\ UNCHANGED <<cVars, dataVars, ownVars, lockVars, logVars, backendVars, jobs, stop_, ringVars, vkVars,
                   pending_, completed_, in_flight_, total_completed_, total_failed_,
                   total_bytes_transferred_, clientVars>>

InitL ==
    /\ mode = "locks" /\ kind = "cpu"
    /\ reqs = <<>> /\ diags = {}
    /\ cbCount = [i \in 1..MaxQReq |-> 0]
    /\ final = [i \in 1..MaxQReq |-> Request]
    /\ dpc = "alive"
    /\ InitPool
    /\ init_failed = FALSE /\ entries_ = 1
    /\ ring_pending = <<>> /\ batch = <<>> /\ sq = <<>> /\ inKernel = {}
    /\ toReap = 0 /\ rpc = "none"
    /\ Constructed(NoConfig, NoHandles) /\ vk_mutex_ = "none"
    /\ staging = [w \in Workers |-> {}]
    /\ NoData /\ NoCRequest
    /\ InitQueue

NextL ==
    \/ \E c \in Clients : enqueue_lock(c)
    \/ \E c \in Clients, req \in FairInputs : enqueue_push(c, req)
    \/ \E c \in Clients : submit_all_lock(c)
    \/ \E c \in Clients : submit_all_swap(c)
    \/ \E c \in Clients : submit_all_item(c)
    \/ \E c \in Clients : take_completed_lock(c)
    \/ \E c \in Clients : take_completed_swap(c)
    \/ \E c \in Clients : wait_all(c)
    \/ \E c \in Clients : wait_all_check(c)
    \/ \E c \in Clients : wait_all_sleep(c)
    \/ \E c \in Clients : wait_all_wake(c)
    \/ \E c \in Clients : wait_all_return(c)
    \/ \E w \in Workers : CpuWorker(w)
    \/ \E w \in Workers : closure_lock(w)
    \/ \E w \in Workers : closure_push(w)
    \/ \E w \in Workers : closure_dec(w)
    \/ \E w \in Workers : closure_notify_lock(w)
    \/ \E w \in Workers : closure_notify_all(w)

SpecLocks == InitL /\ [][NextL]_vars

\* ================================================================ SpecC
\* ds_runtime_c.cpp: CQueue under two client threads, on the CPU backend or
\* on an io_uring backend whose ring failed to initialise, which completes
\* every request inside submit on the caller's thread.

\* to_cpp_request: the fields of the ds_request, with status and
\* errno_value set afresh and bytes_transferred value-initialised.
to_cpp_request(request) ==
    [Request EXCEPT !.fd = request.fd, !.offset = request.offset,
                    !.size = request.size, !.dst = request.dst,
                    !.src = request.src, !.gpu_buffer = request.gpu_buffer,
                    !.op = request.op, !.dst_memory = request.dst_memory,
                    !.src_memory = request.src_memory,
                    !.compression = request.compression,
                    !.status = "Pending", !.errno_value = 0]

\* The ds_requests handed in: a read of two bytes in a struct that is fresh
\* or still carries the result of an earlier use.
CInputs == { HostRead, [HostRead EXCEPT !.status = "IoError", !.errno_value = EIO] }

\* The user_data a client thread passes to ds_queue_submit_all.
Cookie(c) == c

\* CQueue::enqueue: reset status and errno_value of the caller's struct,
\* translate, push_back under mtx_.
c_enqueue(c, request) ==
    /\ mode = "cq" /\ cpc[c] = "idle" /\ Len(reqs) < MaxCReq
    /\ c_request' = Append(c_request, [status |-> "Pending", errno_value |-> 0])
    /\ reqs' = Append(reqs, to_cpp_request(request))
    /\ pending_' = Append(pending_, Len(reqs) + 1)
    /\ captured' = Append(captured, "none")
    /\ seen' = Append(seen, [request |-> NoReq, user_data |-> "none",
                             status |-> "Pending", errno_value |-> 0])
    /\ UNCHANGED <<dataVars, ownVars, lockVars, logVars, mode, kind, diags, cbCount,
                   final, dpc, poolVars, ringVars, vkVars, completed_, in_flight_,
                   total_completed_, total_failed_, total_bytes_transferred_,
                   wait_mtx_, wait_cv_, clientVars>>

\* Variant: in_flight_ is not incremented.
c_submit_all_item_noinc(c) ==
    /\ mode = "cq" /\ cpc[c] = "sub_item"
    /\ LET id == Head(to_submit[c]) IN
         /\ captured' = [captured EXCEPT ![id] = Cookie(c)]
         /\ IF kind = "cpu"
            THEN /\ ThreadPool_submit(id)
                 /\ to_submit' = [to_submit EXCEPT ![c] = Tail(@)]
                 /\ cpc' = [cpc EXCEPT ![c] =
                              IF Tail(to_submit[c]) = <<>> THEN "idle" ELSE "sub_item"]
            ELSE /\ cpc' = [cpc EXCEPT ![c] = "sync_update"]
                 /\ UNCHANGED <<jobs, to_submit>>
    /\ UNCHANGED <<dataVars, ownVars, lockVars, logVars, backendVars, stop_, wpc, wreq,
                   ringVars, vkVars, pending_, completed_, in_flight_,
                   total_completed_, total_failed_, total_bytes_transferred_,
                   wait_mtx_, wait_cv_, handedBy, taken, lastBatch, preInFlight,
                   batchAlone, c_request, seen>>

\* CQueue::submit_all, loop body for one request: in_flight_.fetch_add(1),
\* then backend_->submit with the closure that captured c_request, callback
\* and user_data.  The CPU backend queues the job; the failed ring goes on
\* to complete the request before submit returns.
c_submit_all_item(c) ==
    /\ mode = "cq" /\ cpc[c] = "sub_item"
    /\ in_flight_' = in_flight_ + 1
    /\ LET id == Head(to_submit[c]) IN
         /\ captured' = [captured EXCEPT ![id] = Cookie(c)]
         /\ IF kind = "cpu"
            THEN /\ ThreadPool_submit(id)
                 /\ to_submit' = [to_submit EXCEPT ![c] = Tail(@)]
                 /\ cpc' = [cpc EXCEPT ![c] =
                              IF Tail(to_submit[c]) = <<>> THEN "idle" ELSE "sub_item"]
            ELSE /\ cpc' = [cpc EXCEPT ![c] = "sync_update"]
                 /\ UNCHANGED <<jobs, to_submit>>
    /\ UNCHANGED <<dataVars, ownVars, lockVars, logVars, backendVars, stop_, wpc, wreq,
                   ringVars, vkVars, pending_, completed_,
                   total_completed_, total_failed_, total_bytes_transferred_,
                   wait_mtx_, wait_cv_, handedBy, taken, lastBatch, preInFlight,
                   batchAlone, c_request, seen>>

\* update_c_request: status and errno_value of the completed request.
update_c_request(id, completed) ==
    c_request' = [c_request EXCEPT ![id] = [status |-> completed.status,
                                            errno_value |-> completed.errno_value]]

\* ds_queue_total_completed, ds_queue_total_failed and
\* ds_queue_total_bytes_transferred: the queue's statistics.
ds_queue_total_completed == total_completed_
ds_queue_total_failed == total_failed_
ds_queue_total_bytes_transferred == total_bytes_transferred_

\* Variant: only successful completions are counted.
c_stats_okonly(completed) ==
    /\ total_completed_' = total_completed_ + (IF completed.status = "Ok" THEN 1 ELSE 0)
    /\ total_failed_' = total_failed_ + (IF completed.status # "Ok" THEN 1 ELSE 0)
    /\ total_bytes_transferred_' =
           total_bytes_transferred_ + completed.bytes_transferred

\* The statistics accumulated per completion: one more completed, one more
\* failed unless the status is Ok, the bytes transferred added.
c_stats(completed) ==
    /\ total_completed_' = total_completed_ + 1
    /\ total_failed_' = total_failed_ + (IF completed.status # "Ok" THEN 1 ELSE 0)
    /\ total_bytes_transferred_' =
           total_bytes_transferred_ + completed.bytes_transferred

\* callback(c_request, user_data): the user's function sees the struct as
\* it is now.
c_callback(id) ==
    /\ cbCount' = [cbCount EXCEPT ![id] = @ + 1]
    /\ seen' = [seen EXCEPT ![id] = [request |-> id, user_data |-> captured[id],
                                     status |-> c_request[id].status,
                                     errno_value |-> c_request[id].errno_value]]

\* Variant: the closure does not write the result back.
c_closure_update_skip(w) ==
    /\ mode = "cq" /\ wpc[w] = "cb_record"
    /\ final' = [final EXCEPT ![wreq[w].id] = wreq[w].req]
    /\ c_stats(wreq[w].req)
    /\ wpc' = [wpc EXCEPT ![w] = "cb_user"]
    /\ UNCHANGED <<dataVars, ownVars, lockVars, logVars, mode, kind, reqs, diags, cbCount,
                   dpc, jobs, stop_, wreq, ringVars, vkVars, pending_, completed_,
                   in_flight_, wait_mtx_, wait_cv_, clientVars, c_request, captured, seen>>

\* The closure on a pool worker: update_c_request(*c_request, completed).
\* final notes the completed request the closure was given.
c_closure_update(w) ==
    /\ mode = "cq" /\ wpc[w] = "cb_record"
    /\ final' = [final EXCEPT ![wreq[w].id] = wreq[w].req]
    /\ update_c_request(wreq[w].id, wreq[w].req)
    /\ c_stats(wreq[w].req)
    /\ wpc' = [wpc EXCEPT ![w] = "cb_user"]
    /\ UNCHANGED <<dataVars, ownVars, lockVars, logVars, mode, kind, reqs, diags, cbCount,
                   dpc, jobs, stop_, wreq, ringVars, vkVars, pending_, completed_,
                   in_flight_, wait_mtx_, wait_cv_, clientVars, captured, seen>>

\* The closure on a pool worker: the user callback.
c_closure_callback(w) ==
    /\ mode = "cq" /\ wpc[w] = "cb_user"
    /\ c_callback(wreq[w].id)
    /\ wpc' = [wpc EXCEPT ![w] = "cb_dec"]
    /\ UNCHANGED <<dataVars, ownVars, lockVars, logVars, mode, kind, reqs, diags, final,
                   dpc, jobs, stop_, wreq, ringVars, vkVars, queueVars, clientVars,
                   c_request, captured>>

\* IoUringBackend::submit on the caller's thread: the checks, the
\* diagnostic, and the closure's update_c_request.
c_sync_update(c) ==
    /\ mode = "cq" /\ cpc[c] = "sync_update"
    /\ LET id == Head(to_submit[c])
           r == IoUringBackend_check(id, reqs[id], init_failed) IN
         /\ diags' = diags \cup r.diags
         /\ final' = [final EXCEPT ![id] = r.req]
         /\ update_c_request(id, r.req)
         /\ c_stats(r.req)
    /\ cpc' = [cpc EXCEPT ![c] = "sync_user"]
    /\ UNCHANGED <<dataVars, ownVars, lockVars, logVars, mode, kind, reqs, cbCount,
                   dpc, poolVars, ringVars, vkVars, pending_, completed_, in_flight_,
                   wait_mtx_, wait_cv_, to_submit, handedBy, taken, lastBatch,
                   preInFlight, batchAlone, captured, seen>>

\* The closure on the caller's thread: the user callback.
c_sync_callback(c) ==
    /\ mode = "cq" /\ cpc[c] = "sync_user"
    /\ c_callback(Head(to_submit[c]))
    /\ cpc' = [cpc EXCEPT ![c] = "sync_dec"]
    /\ UNCHANGED <<dataVars, ownVars, lockVars, logVars, mode, kind, reqs, diags, final,
                   dpc, poolVars, ringVars, vkVars, queueVars, to_submit, handedBy,
                   taken, lastBatch, preInFlight, batchAlone, c_request, captured>>

\* The closure on the caller's thread: in_flight_.fetch_sub(1); unless this
\* was the last request in flight submit returns and the loop goes on.
c_sync_dec(c) ==
    /\ mode = "cq" /\ cpc[c] = "sync_dec"
    /\ in_flight_' = in_flight_ - 1
    /\ IF in_flight_ - 1 = 0
       THEN cpc' = [cpc EXCEPT ![c] = "sync_notify"] /\ UNCHANGED to_submit
       ELSE /\ to_submit' = [to_submit EXCEPT ![c] = Tail(@)]
            /\ cpc' = [cpc EXCEPT ![c] =
                         IF Tail(to_submit[c]) = <<>> THEN "idle" ELSE "sub_item"]
    /\ UNCHANGED <<cVars, dataVars, ownVars, lockVars, logVars, backendVars, poolVars,
                   ringVars, vkVars, pending_, completed_, total_completed_,
                   total_failed_, total_bytes_transferred_, wait_mtx_, wait_cv_,
                   handedBy, taken, lastBatch, preInFlight, batchAlone>>

\* The closure on the caller's thread: lock_guard on wait_mtx_ and
\* notify_all; submit returns and the loop goes on.
c_sync_notify(c) ==
    /\ mode = "cq" /\ cpc[c] = "sync_notify" /\ wait_mtx_ = "none"
    /\ wait_cv_' = {}
    /\ to_submit' = [to_submit EXCEPT ![c] = Tail(@)]
    /\ cpc' = [cpc EXCEPT ![c] =
                 IF Tail(to_submit[c]) = <<>> THEN "idle" ELSE "sub_item"]
    /\ UNCHANGED <<cVars, dataVars, ownVars, lockVars, logVars, backendVars, poolVars,
                   ringVars, vkVars, pending_, completed_, in_flight_,
                   total_completed_, total_failed_, total_bytes_transferred_,
                   wait_mtx_, handedBy, taken, lastBatch, preInFlight, batchAlone>>

InitC ==
    /\ mode = "cq" /\ kind \in {"cpu", "ring"}
    /\ reqs = <<>> /\ diags = {}
    /\ cbCount = [i \in 1..MaxCReq |-> 0]
    /\ final = [i \in 1..MaxCReq |-> Request]
    /\ dpc = "alive"
    /\ InitPool
    /\ init_failed = (kind = "ring") /\ entries_ = 1
    /\ ring_pending = <<>> /\ batch = <<>> /\ sq = <<>> /\ inKernel = {}
    /\ toReap = 0 /\ rpc = "none"
    /\ Constructed(NoConfig, NoHandles) /\ vk_mutex_ = "none"
    /\ staging = [w \in Workers |-> {}]
    /\ NoData /\ NoCRequest
    /\ InitQueue

NextC ==
    \/ \E c \in Clients, request \in CInputs : c_enqueue(c, request)
    \/ \E c \in Clients : submit_all(c)
    \/ \E c \in Clients : c_submit_all_item(c)
    \/ \E c \in Clients : c_sync_update(c)
    \/ \E c \in Clients : c_sync_callback(c)
    \/ \E c \in Clients : c_sync_dec(c)
    \/ \E c \in Clients : c_sync_notify(c)
    \/ \E c \in Waiters : wait_all(c)
    \/ \E c \in Clients : wait_all_check(c)
    \/ \E c \in Clients : wait_all_sleep(c)
    \/ \E c \in Clients : wait_all_wake(c)
    \/ \E c \in Clients : wait_all_spurious(c)
    \/ \E c \in Clients : wait_all_return(c)
    \/ \E w \in Workers : CpuWorker(w)
    \/ \E w \in Workers : c_closure_update(w)
    \/ \E w \in Workers : c_closure_callback(w)
    \/ \E w \in Workers : closure_dec(w)
    \/ \E w \in Workers : closure_notify(w)

SpecC == InitC /\ [][NextC]_vars


\* ============================================================== SpecLog
\* ds_runtime_logging.cpp: threads call report_error, report_request_error
\* and set_error_callback, and the installed sink may call them again from
\* inside.  lstack[t] is the stack of calls thread t is in, innermost last.

\* Deepest nesting of calls through sinks.
MaxDepth == 2

\* What can sit in the slot: nothing (default_reporter runs), a sink that
\* just returns, one that reports again, one that installs a sink.
Sinks == {"none", "plain", "reporting", "installing"}
ReportFns == {"report_error", "report_request_error"}

Top(t) == lstack[t][Len(lstack[t])]
Push(t, fr) == lstack' = [lstack EXCEPT ![t] = Append(@, fr)]
Pop(t) == lstack' = [lstack EXCEPT ![t] = SubSeq(@, 1, Len(@) - 1)]
SetTop(t, fr) == lstack' = [lstack EXCEPT ![t][Len(lstack[t])] = fr]

\* A thread of the program calls one of the three functions.
log_call(t, fn, cb) ==
    /\ lstack[t] = <<>>
    /\ Push(t, [fn |-> fn, pc |-> "lock", cb |-> cb])
    /\ UNCHANGED <<cVars, dataVars, ownVars, lockVars, g_error_mutex, g_error_callback, backendVars, poolVars,
                   ringVars, vkVars, queueVars, clientVars>>

\* std::lock_guard on g_error_mutex, in any of the three functions.
log_lock(t) ==
    /\ lstack[t] # <<>> /\ Top(t).pc = "lock"
    /\ g_error_mutex = "none"
    /\ g_error_mutex' = t
    /\ SetTop(t, [Top(t) EXCEPT !.pc = "locked"])
    /\ UNCHANGED <<cVars, dataVars, ownVars, lockVars, g_error_callback, backendVars, poolVars, ringVars,
                   vkVars, queueVars, clientVars>>

\* Variant: the guard lives to the end of the function, so the sink is
\* called inside its scope.
log_read_hold(t) ==
    /\ lstack[t] # <<>> /\ Top(t).pc = "locked" /\ Top(t).fn \in ReportFns
    /\ g_error_mutex = t
    /\ SetTop(t, [Top(t) EXCEPT !.pc = "call", !.cb = g_error_callback])
    /\ UNCHANGED <<cVars, dataVars, ownVars, lockVars, g_error_mutex, g_error_callback, backendVars, poolVars,
                   ringVars, vkVars, queueVars, clientVars>>

\* Variant: the local callback is never assigned from the slot, so the
\* report always falls through to the default reporter.
log_read_default(t) ==
    /\ lstack[t] # <<>> /\ Top(t).pc = "locked" /\ Top(t).fn \in ReportFns
    /\ g_error_mutex = t
    /\ g_error_mutex' = "none"
    /\ SetTop(t, [Top(t) EXCEPT !.pc = "call"])
    /\ UNCHANGED <<cVars, dataVars, ownVars, lockVars, g_error_callback, backendVars, poolVars, ringVars,
                   vkVars, queueVars, clientVars>>

\* report_error / report_request_error: callback = g_error_callback, and
\* the block ends: the guard releases g_error_mutex.
log_read(t) ==
    /\ lstack[t] # <<>> /\ Top(t).pc = "locked" /\ Top(t).fn \in ReportFns
    /\ g_error_mutex = t
    /\ g_error_mutex' = "none"
    /\ SetTop(t, [Top(t) EXCEPT !.pc = "call", !.cb = g_error_callback])
    /\ UNCHANGED <<cVars, dataVars, ownVars, lockVars, g_error_callback, backendVars, poolVars, ringVars,
                   vkVars, queueVars, clientVars>>

\* set_error_callback: assign the slot; the guard releases g_error_mutex
\* on return.
log_assign(t) ==
    /\ lstack[t] # <<>> /\ Top(t).pc = "locked" /\ Top(t).fn = "set_error_callback"
    /\ g_error_mutex = t
    /\ g_error_callback' = Top(t).cb
    /\ g_error_mutex' = "none"
    /\ Pop(t)
    /\ UNCHANGED <<cVars, dataVars, ownVars, lockVars, backendVars, poolVars, ringVars, vkVars, queueVars,
                   clientVars>>

\* report_error / report_request_error: callback(ctx), or default_reporter
\* when the copy is empty.  A sink that calls back into the module starts
\* the nested call; any other returns, and so does the report.
sink_call(t) ==
    /\ lstack[t] # <<>> /\ Top(t).pc = "call"
    /\ IF Top(t).cb \in {"none", "plain"} \/ Len(lstack[t]) >= MaxDepth
       THEN Pop(t)
       ELSE \E fr \in IF Top(t).cb = "reporting"
                      THEN { [fn |-> fn, pc |-> "lock", cb |-> "none"] : fn \in ReportFns }
                      ELSE { [fn |-> "set_error_callback", pc |-> "lock", cb |-> cb] :
                                cb \in Sinks } :
              lstack' = [lstack EXCEPT
                           ![t] = Append([@ EXCEPT ![Len(@)].pc = "in_sink"], fr)]
    /\ UNCHANGED <<cVars, dataVars, ownVars, lockVars, g_error_mutex, g_error_callback, backendVars, poolVars,
                   ringVars, vkVars, queueVars, clientVars>>

\* The nested call has returned: the sink returns, and so does the report.
sink_return(t) ==
    /\ lstack[t] # <<>> /\ Top(t).pc = "in_sink"
    /\ Pop(t)
    /\ UNCHANGED <<cVars, dataVars, ownVars, lockVars, g_error_mutex, g_error_callback, backendVars, poolVars,
                   ringVars, vkVars, queueVars, clientVars>>

InitLog ==
    /\ mode = "log" /\ kind = "cpu"
    /\ reqs = <<>> /\ diags = {}
    /\ cbCount = [i \in 1..MaxReq |-> 0]
    /\ final = [i \in 1..MaxReq |-> Request]
    /\ dpc = "alive"
    /\ InitPool
    /\ init_failed = FALSE /\ entries_ = 1
    /\ ring_pending = <<>> /\ batch = <<>> /\ sq = <<>> /\ inKernel = {}
    /\ toReap = 0 /\ rpc = "none"
    /\ Constructed(NoConfig, NoHandles) /\ vk_mutex_ = "none"
    /\ staging = [w \in Workers |-> {}]
    /\ NoData /\ NoCRequest
    /\ InitQueue

NextLog ==
    \/ \E t \in Clients, fn \in ReportFns : log_call(t, fn, "none")
    \/ \E t \in Clients, cb \in Sinks : log_call(t, "set_error_callback", cb)
    \/ \E t \in Clients : log_lock(t)
    \/ \E t \in Clients : log_read(t)
    \/ \E t \in Clients : log_assign(t)
    \/ \E t \in Clients : sink_call(t)
    \/ \E t \in Clients : sink_return(t)

SpecLog == InitLog /\ [][NextLog]_vars

\* C15: g_error_mutex is held by a thread only between its lock and the
\* read or the assignment of the slot that follows: not while a sink runs,
\* not while a sink is about to be called, and not by a thread that is
\* about to lock it again from inside a sink.
C15_SinkOutsideLock ==
    \A t \in Clients :
        /\ g_error_mutex = t => (lstack[t] # <<>> /\ Top(t).pc = "locked")
        /\ \A i \in 1..Len(lstack[t]) :
              lstack[t][i].pc \in {"lock", "call"} => g_error_mutex # t

\* A sink that reports again has taken the lock in the nested report, and
\* the other thread waits to lock.
C15_Witness ==
    \E t \in Clients, u \in Clients :
        /\ t # u
        /\ Len(lstack[t]) = 2 /\ lstack[t][1].pc = "in_sink"
        /\ lstack[t][1].cb = "reporting"
        /\ Top(t).pc = "locked" /\ g_error_mutex = t
        /\ lstack[u] # <<>> /\ Top(u).pc = "lock"

\* ===================================================================
\* Properties of the queue
\* ===================================================================

Handed == { id \in Submitted : handedBy[id] # "none" }
HandedTo(c) == { id \in Submitted : handedBy[id] = c }
Fired == { id \in Submitted : cbCount[id] >= 1 }

\* The closure of request id has returned.
ClosureDone(id) == cbCount[id] >= 1 /\ \A w \in Workers : wreq[w].id # id

\* Every callback of the last batch client c submitted has returned.
BatchDone(c) ==
    /\ lastBatch[c] # {} /\ ~InSubmit(c)
    /\ \A id \in lastBatch[c] : ClosureDone(id)

RECURSIVE SumBytes(_)
SumBytes(S) ==
    IF S = {} THEN 0
    ELSE LET id == CHOOSE x \in S : TRUE
         IN final[id].bytes_transferred + SumBytes(S \ {id})

\* C2: a thread inside wait_all gets out of it, given that the closures
\* of the requests in flight run and submissions come to an end; no
\* notification is lost between the predicate and the block.
C2_WaitAllReturns ==
    \A c \in Clients :
        (<>[](in_flight_ = 0 /\ ~InSubmit(Submitter))) => (InWait(c) ~> (cpc[c] = "idle"))

\* Both threads are blocked in wait_all when the last closure has notified.
C2_Witness ==
    /\ \A c \in Clients : cpc[c] = "wait_blocked"
    /\ wait_cv_ = {} /\ in_flight_ = 0 /\ Fired # {}

\* C3: at the step in which wait_all returns, no request is in flight,
\* other threads calling submit_all or not.
C3_ZeroAtReturn ==
    [][\A c \in Clients :
          (cpc[c] = "wait_ret" /\ cpc'[c] = "idle") => in_flight_' = 0]_vars

\* C4: when wait_all is about to return to a thread and no other thread
\* is submitting, every request that thread's submit_all handed to the
\* backend has its record in the completed list, or was taken from it
\* before; no record is in the list once taken.
C4_RecordsAtReturn ==
    /\ \A c \in Clients :
          (cpc[c] = "wait_ret" /\ \A d \in Clients \ {c} : ~InSubmit(d))
              => HandedTo(c) \subseteq (SeqToSet(completed_) \cup taken)
    /\ SeqToSet(completed_) \cap taken = {}

C4_Witness ==
    /\ cpc["c1"] = "wait_ret" /\ ~InSubmit("c2")
    /\ Cardinality(HandedTo("c1")) >= 2
    /\ taken # {} /\ completed_ # <<>>

\* C5: once the completion of every request handed to the backend has
\* fired, the totals are the number of those requests, the number of them
\* that did not end Ok, and the sum of their bytes_transferred.
C5_Totals ==
    (Handed # {} /\ Handed = Fired) =>
        /\ total_completed_ = Cardinality(Handed)
        /\ total_failed_ = Cardinality({ id \in Handed : final[id].status # "Ok" })
        /\ total_bytes_transferred_ = SumBytes(Handed)

C5_Witness ==
    /\ Handed = Fired /\ Cardinality(Handed) >= 2
    /\ \E id \in Handed : final[id].status = "Ok" /\ final[id].bytes_transferred = 1
    /\ \E id \in Handed : final[id].status = "IoError"
    /\ \A w \in Workers : wpc[w] = "wait"

\* C6: at the step in which the last callback of a batch returns,
\* in_flight() is what it was right before that batch's submit_all.
C6_BackToPreValue ==
    [][\A c \in Clients :
          (~BatchDone(c) /\ BatchDone(c)') => in_flight_' = preInFlight[c]]_vars

\* C6, amended: the same for a batch that has the queue to itself: its
\* submit_all starts with nothing in flight and no submit_all in progress,
\* and no other submit_all starts before its callbacks have returned.
C6_BackToPreValueAlone ==
    [][\A c \in Clients :
          (~BatchDone(c) /\ BatchDone(c)' /\ batchAlone[c]')
              => in_flight_' = preInFlight[c]]_vars

C6_Witness ==
    \E c \in Clients :
        /\ BatchDone(c) /\ batchAlone[c]
        /\ Cardinality(lastBatch[c]) >= 2
        /\ \E id \in lastBatch[c] : final[id].status = "IoError"

\* How often id occurs in the sequence q.
Count(q, id) == Cardinality({ i \in 1..Len(q) : q[i] = id })

\* How often request id sits in the local batch of a submit_all under way.
InTransit(id) ==
    Count(to_submit["c1"], id) + Count(to_submit["c2"], id)

\* How often request id has been handed to the backend: as a job still
\* queued, as a job a worker runs, or as a completion delivered.
Handovers(id) ==
    Count(jobs, id)
    + Cardinality({ w \in Workers : wpc[w] = "cb_record" /\ wreq[w].id = id })
    + cbCount[id]

\* C11: a request whose enqueue has returned is in exactly one place: the
\* pending list, the local batch of a submit_all under way, or the backend,
\* and it is handed to the backend at most once, whatever threads enqueue
\* and submit at the same time.
C11_NoLossNoDup ==
    \A id \in Submitted :
        /\ Handovers(id) <= 1
        /\ Count(pending_, id) + InTransit(id) + Handovers(id) = 1

\* Both threads are inside submit_all, each with its own local batch.
C11_Witness ==
    /\ InSubmit("c1") /\ InSubmit("c2")
    /\ to_submit["c1"] # <<>> /\ to_submit["c2"] # <<>>

\* ===================================================================
\* Properties of the backends
\* ===================================================================

\* The requests whose completion callback has been invoked.
Delivered == { id \in Submitted : cbCount[id] >= 1 }

\* C1: no request's completion callback is invoked twice, and once the
\* backend has nothing left to do on its own every request handed to
\* submit has had its callback invoked.
C1_ExactlyOnce ==
    \A id \in Submitted :
        /\ cbCount[id] <= 1
        /\ BackendIdle => cbCount[id] = 1

\* C7: when the destructor has returned, every request the backend
\* accepted has had its callback invoked (the backends have no way to
\* cancel a request).
C7_FiredByDestruction ==
    dpc = "destroyed" => \A id \in Submitted : cbCount[id] >= 1

\* C7, first half: once the destructor has returned no callback is invoked.
C7_NoCallbackAfterDestroy ==
    [][dpc = "destroyed" => cbCount' = cbCount]_vars

\* C8: a request delivered with IoError has no bytes transferred and an
\* error code other than zero.
C8_IoErrorFields ==
    \A id \in Delivered :
        final[id].status = "IoError" =>
            final[id].bytes_transferred = 0 /\ final[id].errno_value # 0

\* C9: no request is delivered Pending, and a request delivered Ok has
\* error code zero and at most size bytes transferred.
C9_OkFields ==
    \A id \in Delivered :
        /\ final[id].status # "Pending"
        /\ final[id].status = "Ok" =>
              final[id].errno_value = 0 /\ final[id].bytes_transferred <= final[id].size

\* C10: a request delivered with IoError has a diagnostic of its own,
\* reported with has_request set, by the time its callback is invoked.
C10_Diagnosed ==
    \A id \in Delivered :
        final[id].status = "IoError" =>
            \E d \in diags : d.has_request /\ d.rid = id

\* C12: no completion callback is invoked on the thread that calls submit:
\* the step the caller takes inside Backend::submit, the one that adds the
\* request, invokes no callback, for rejected requests as well.
C12_BackendThread ==
    [][Len(reqs') > Len(reqs) => cbCount' = cbCount]_vars

\* C13: a call of take_completed returns all completed records not taken
\* before and leaves the list empty, so that a second call with no
\* completion in between returns an empty list.
C13_TakeIdempotent ==
    [][/\ SeqToSet(take_completed_result) = Fired \ taken
       /\ SeqToSet(take_completed_result') = Fired' \ taken'
       /\ taken' # taken =>
             /\ taken' = taken \cup SeqToSet(take_completed_result)
             /\ take_completed_result' = <<>>]_vars

\* Two records have been taken in one or more calls and nothing completed
\* since: the next call returns an empty list.
C13_Witness ==
    /\ Cardinality(taken) >= 2 /\ taken = Fired
    /\ take_completed_result = <<>>
    /\ cpc["c1"] = "idle"

Threads == Clients \cup Workers

\* A step of the thread that holds mtx_, up to the end of its guard's scope.
MtxHolderStep ==
    \/ \E c \in Clients, req \in FairInputs : enqueue_push(c, req)
    \/ \E c \in Clients : submit_all_swap(c) \/ take_completed_swap(c)
    \/ \E w \in Workers : closure_push(w)

\* A step of the thread that holds wait_mtx_.
WaitHolderStep ==
    \/ \E c \in Clients : wait_all_check(c) \/ wait_all_sleep(c) \/ wait_all_return(c)
    \/ \E w \in Workers : closure_notify_all(w)

\* C14: no thread holds mtx_ and wait_mtx_ together; the closure has
\* released mtx_ when it goes on to the counters and the notification; and
\* the holder of either mutex can always take its next step without the
\* other mutex, so that no thread waits for a mutex for ever.
C14_NoLockInversion ==
    /\ \A t \in Threads : ~(mtx_ = t /\ wait_mtx_ = t)
    /\ \A w \in Workers :
          wpc[w] \in {"cb_dec", "cb_notify", "cb_notify_locked"} => mtx_ # w
    /\ mtx_ # "none" => ENABLED MtxHolderStep
    /\ wait_mtx_ # "none" => ENABLED WaitHolderStep

\* A client holds mtx_ while a worker holds wait_mtx_ for the notification,
\* another worker waits for mtx_ and a client is blocked in wait_all.
C14_Witness ==
    /\ mtx_ \in Clients /\ wait_mtx_ \in Workers
    /\ \E w \in Workers : wpc[w] = "cb_record"
    /\ \E c \in Clients : cpc[c] = "wait_blocked"

\* C16: when io_uring_submit returns a value <= 0 for a batch, every request
\* of that batch already tagged into a submission entry still surfaces: by
\* the time the dispatcher has exited no tagged entry is left behind with
\* its callback not invoked and its tracking record not freed.
C16_TaggedSurface ==
    rpc = "exited" => \A id \in SeqToSet(sq) : cbCount[id] = 1

\* C17: when the dispatcher finds no free submission entry for a request of
\* its batch, that request is completed there and then with IoError, EBUSY
\* and bytes_transferred 0 and exactly one diagnostic for it, nothing is
\* tagged into the ring for it, and the dispatcher goes on with the rest of
\* the batch.
RingFull == rpc = "prep" /\ batch # <<>> /\ Len(sq) >= entries_

C17_RingFullStep ==
    [][RingFull /\ batch' # batch =>
         LET id == Head(batch) IN
           /\ cbCount' = [cbCount EXCEPT ![id] = @ + 1]
           /\ final'[id].status = "IoError"
           /\ final'[id].errno_value = EBUSY
           /\ final'[id].bytes_transferred = 0
           /\ diags' \ diags \in { {d} : d \in { e \in diags' :
                                        e.has_request /\ e.rid = id /\ e.errno_value = EBUSY } }
           /\ sq' = sq /\ inKernel' = inKernel
           /\ batch' = Tail(batch) /\ rpc' = "prep"]_vars

\* A request completed with EBUSY is followed in its batch by another that
\* has been processed in turn, and the dispatcher went on to submit.
C17_Witness ==
    \E i \in 1..Len(reqs), j \in 1..Len(reqs) :
        /\ i < j
        /\ cbCount[i] = 1 /\ final[i].errno_value = EBUSY
        /\ cbCount[j] = 1 /\ final[j].errno_value = EBUSY
        /\ rpc = "drain"

\* C18: a ring backend whose initialization failed stays failed; every
\* request submitted to it has been completed inside submit, once, with
\* IoError, EINVAL and bytes_transferred 0 and exactly one diagnostic for
\* it; nothing is queued for a dispatcher, none exists, nothing reaches a
\* ring; and its destructor, once begun, can return at once.
FailedRingState ==
    /\ ring_pending = <<>> /\ batch = <<>> /\ sq = <<>> /\ inKernel = {}
    /\ rpc = "none"
    /\ \A id \in 1..Len(reqs) :
          /\ cbCount[id] = 1
          /\ final[id].status = "IoError"
          /\ final[id].errno_value = EINVAL
          /\ final[id].bytes_transferred = 0
          /\ { d \in diags : d.rid = id } =
                 {report_request_error("io_uring", "submit", id, reqs[id], EINVAL)}
    /\ dpc = "stopping" => ENABLED DtorJoin

C18_PermanentlyFailed ==
    /\ [](init_failed => FailedRingState)
    /\ [][init_failed => init_failed']_vars

\* A failed backend was handed requests of several shapes and destroyed.
C18_Witness ==
    /\ init_failed /\ dpc = "destroyed"
    /\ Len(reqs) >= 2
    /\ \E i \in 1..Len(reqs), j \in 1..Len(reqs) :
          reqs[i] = HostRead /\ reqs[j].compression # "None"

\* C19: the ring backend takes compression None only: a request with any
\* other mode has been rejected inside submit with a diagnostic for it, is
\* never completed Ok, and is never queued, tagged into the submission
\* ring or handed to the kernel.
C19_NoneOnly ==
    kind = "ring" =>
        \A id \in 1..Len(reqs) :
            reqs[id].compression # "None" =>
                /\ id \notin SeqToSet(ring_pending) \cup SeqToSet(batch)
                              \cup SeqToSet(sq) \cup inKernel
                /\ cbCount[id] = 1 /\ final[id].status = "IoError"
                /\ \E d \in diags : d.has_request /\ d.rid = id

\* C20: in the Vulkan backend the request whose copy reported a failed
\* wait on the fence is completed with status IoError.
FenceDiag == report_error("vulkan", "vkWaitForFences", EIO)

C20_FenceTimeoutFails ==
    [][FenceDiag \notin diags /\ FenceDiag \in diags' =>
         \A id \in 1..Len(reqs) :
             cbCount'[id] # cbCount[id] => final'[id].status = "IoError"]_vars

\* C21: at most one worker at a time is inside submit_copy's critical
\* section (command buffer, queue submission, fence wait, release), and
\* the worker inside is the holder of vk_mutex_.
C21_CopySerialized ==
    /\ Cardinality({ w \in Workers : wpc[w] = "vk_copy" }) <= 1
    /\ \A w \in Workers : wpc[w] = "vk_copy" => vk_mutex_ = w

\* One worker is inside the section while the other waits to enter.
C21_Witness ==
    \E w \in Workers, v \in Workers :
        wpc[w] = "vk_copy" /\ wpc[v] = "vk_lock" /\ vk_mutex_ = w

External ==
    IF config.device
    THEN {"device"} \cup (IF config.instance THEN {"instance"} ELSE {})
                   \cup (IF config.command_pool THEN {"command_pool"} ELSE {})
    ELSE {}

C23_ExternalKept == destroyed \cap External = {}

\* A backend on a supplied device that made its own command pool has
\* served a staged request and is destroyed: the pool is gone, the device
\* and the instance are not.
C23_Witness ==
    /\ dpc = "destroyed"
    /\ config.device /\ ~config.command_pool
    /\ destroyed = {"command_pool"}
    /\ \E i \in 1..Len(reqs) : cbCount[i] = 1 /\ final[i].status = "Ok"

\* C24: the CPU backend fails a request at the first violated check of
\* this list, with that check's error code, status IoError and a diagnostic
\* of the validator, and no I/O: fd < 0 (EBADF), size = 0, read without
\* destination, write without source, either memory side on the GPU (all
\* EINVAL).
FirstViolation(req) ==
    IF req.fd < 0 THEN EBADF
    ELSE IF req.size = 0 THEN EINVAL
    ELSE IF req.op = "Read" /\ ~req.dst THEN EINVAL
    ELSE IF req.op = "Write" /\ ~req.src THEN EINVAL
    ELSE IF req.src_memory = "Gpu" \/ req.dst_memory = "Gpu" THEN EINVAL
    ELSE 0

C24_ValidationOrder ==
    kind = "cpu" =>
        \A id \in Delivered :
            FirstViolation(reqs[id]) # 0 =>
                /\ final[id].status = "IoError"
                /\ final[id].errno_value = FirstViolation(reqs[id])
                /\ report_request_error("cpu", "submit", id, reqs[id],
                                           FirstViolation(reqs[id]))
                      \in diags
                /\ \A d \in diags : d.rid = id => d.operation = "submit"

\* C25: a Request with no field set by the caller is rejected by the CPU
\* backend through the size = 0 check, with EINVAL.
C25_DefaultIsZeroSize ==
    kind = "cpu" =>
        \A id \in Delivered :
            reqs[id] = Request =>
                /\ final[id].status = "IoError"
                /\ final[id].errno_value = EINVAL

\* C26: a read with GDeflate on a readable file is completed by the CPU
\* backend with IoError and ENOTSUP, and a diagnostic of subsystem "cpu",
\* operation "decompression" and errno ENOTSUP is reported for it.
C26_StubbedUnsupported ==
    kind = "cpu" =>
        \A id \in Delivered :
            reqs[id] = [HostRead EXCEPT !.compression = "GDeflate"] =>
                \/ report_request_error("cpu", "pread", id, reqs[id], EIO) \in diags
                \/ /\ final[id].status = "IoError"
                   /\ final[id].errno_value = ENOTSUP
                   /\ \E d \in diags :
                         /\ d.subsystem = "cpu" /\ d.operation = "decompression"
                         /\ d.errno_value = ENOTSUP

\* C27: every diagnostic reported for a request has has_request set and
\* carries the fd, offset, size, op, source memory and destination memory
\* of that request as it was submitted.
C27_ContextIsRequest ==
    \A d \in diags :
        d.rid # NoReq =>
            /\ d.rid \in 1..Len(reqs)
            /\ d.has_request
            /\ d.request = Snapshot(reqs[d.rid])

\* The read with fd -1, offset 12345 and size 100 has been reported with
\* exactly those fields, and another request with its own.
C27_Witness ==
    \E d \in diags :
        /\ d.has_request
        /\ d.request = [fd |-> -1, offset |-> 12345, size |-> 100, op |-> "Read",
                        src_memory |-> "Host", dst_memory |-> "Host"]
        /\ cbCount[d.rid] = 1
        /\ \E e \in diags : e.rid # d.rid /\ e.has_request
                              /\ e.request = Snapshot(reqs[e.rid])

\* The step in which request id is completed and its callback invoked.
Completes(id) == id \in Submitted /\ cbCount[id] = 0 /\ cbCount'[id] = 1

\* The bytes the file holds from the request's offset on.
Available(req) == Max(Len(file) - req.offset, 0)

\* C28: a host read that asks for more bytes than the file holds from the
\* offset on, and whose pread does not fail, is completed with status Ok
\* and bytes_transferred equal to the bytes available, fewer than size;
\* no diagnostic is reported and total_failed does not increase.
C28_PartialReadOk ==
    [][\A id \in 1..MaxDataReq :
          (/\ Completes(id)
           /\ reqs[id].op = "Read" /\ ~io_fault[id]
           /\ reqs[id].size > Available(reqs[id]))
          => /\ final'[id].status = "Ok"
             /\ final'[id].bytes_transferred = Available(reqs[id])
             /\ final'[id].bytes_transferred < reqs[id].size
             /\ diags' = diags
             /\ total_failed_' = total_failed_]_vars

\* A write of the bytes B = hostbuf[1] at offset 0 and, after wait_all, a
\* read of |B| bytes at offset 0, neither transformed nor failed by the
\* kernel, both completed.
RoundTrip ==
    /\ Len(reqs) >= 2 /\ cbCount[1] = 1 /\ cbCount[2] = 1
    /\ reqs[1].op = "Write" /\ reqs[2].op = "Read"
    /\ reqs[1].compression = "None" /\ reqs[2].compression = "None"
    /\ reqs[1].offset = 0 /\ reqs[2].offset = 0
    /\ reqs[1].size = Len(hostbuf[1]) /\ reqs[2].size = Len(hostbuf[1])
    /\ ~io_fault[1] /\ ~io_fault[2]

\* C29: after such a round trip the destination buffer equals B and both
\* completed requests have status Ok and bytes_transferred = |B|, on each
\* of the backends.
C29_RoundTrip ==
    RoundTrip =>
        /\ hostbuf[2] = hostbuf[1]
        /\ \A id \in {1, 2} :
              /\ final[id].status = "Ok"
              /\ final[id].bytes_transferred = Len(hostbuf[1])

\* What position i of the destination of request id holds once n bytes
\* were read and before any transform: the byte of the file, the
\* terminator after a short read, or what the caller left there.
Untransformed(id, n, i) ==
    IF i <= n THEN file[reqs[id].offset + i]
    ELSE IF i = n + 1 THEN 0
    ELSE hostbuf[id][i]

\* The first position in 1..size of buffer c that holds NUL, size + 1 if none.
FirstNul(c, size) ==
    IF \E i \in 1..size : c[i] = 0
    THEN CHOOSE i \in 1..size : c[i] = 0 /\ \A j \in 1..(i - 1) : c[j] # 0
    ELSE size + 1

\* C30: on the CPU backend a FakeUppercase read completed Ok leaves, before
\* the first NUL of [0, size), the uppercase of the bytes read from the
\* file, and from the first NUL on the bytes as they were; a write or a
\* failed read leaves the caller's buffer as it was, and a write puts the
\* bytes of the source into the file as they are.
C30_FakeUppercase ==
    [][kind = "cpu" =>
         \A id \in 1..MaxDataReq :
            Completes(id) =>
              LET req == reqs[id]
                  done == final'[id]
                  out == hostbuf'[id]
                  n == done.bytes_transferred
              IN  IF req.op = "Read" /\ done.status = "Ok"
                  THEN req.compression = "FakeUppercase" =>
                         \A i \in 1..req.size :
                            IF i < FirstNul(out, req.size)
                            THEN out[i] = toupper(file[req.offset + i])
                            ELSE out[i] = Untransformed(id, n, i)
                  ELSE /\ out = hostbuf[id]
                       /\ (req.op = "Write" /\ done.status = "Ok") =>
                             \A i \in 1..req.size :
                                file'[req.offset + i] = hostbuf[id][i]]_vars

\* A FakeUppercase read on the CPU backend was completed Ok with two bytes
\* read: an 'a' of the file, now 'A', and a NUL of the file after it.
C30_Witness ==
    /\ kind = "cpu"
    /\ \E id \in Fired :
          /\ reqs[id].op = "Read" /\ reqs[id].compression = "FakeUppercase"
          /\ final[id].status = "Ok" /\ final[id].bytes_transferred = 2
          /\ file = <<97, 0>>
          /\ hostbuf[id] = <<65, 0>>

\* C31: through the C interface the user callback of a submitted request is
\* invoked at most once, with the request's pointer and the user_data of
\* the submit_all call that took it, and the struct it sees already holds
\* the status and errno_value of the completed request; when wait_all
\* returns to the thread that submitted the request, the callback has run.
C31_CallbackOnceUpdated ==
    /\ [](\A id \in Submitted :
            /\ cbCount[id] <= 1
            /\ cbCount[id] = 1 =>
                 /\ seen[id].request = id
                 /\ \A c \in Clients : id \in lastBatch[c] => seen[id].user_data = Cookie(c)
                 /\ seen[id].status \in {"Ok", "IoError"}
                 /\ seen[id].status = c_request[id].status
                 /\ seen[id].errno_value = c_request[id].errno_value
                 /\ seen[id].status = final[id].status
                 /\ seen[id].errno_value = final[id].errno_value)
    /\ [][\A c \in Clients :
            (cpc[c] = "wait_ret" /\ cpc'[c] = "idle") =>
                \A id \in lastBatch[c] : cbCount[id] = 1]_vars

\* wait_all is about to return to a thread whose last submit_all took a
\* request; its callback has run with that thread's user_data and saw Ok.
C31_Witness ==
    /\ cpc["c1"] = "wait_ret"
    /\ \E id \in lastBatch["c1"] :
          /\ cbCount[id] = 1
          /\ seen[id] = [request |-> id, user_data |-> "c1", status |-> "Ok",
                         errno_value |-> 0]

\* The C queue has nothing in flight and no submit_all under way.
CQuiet == in_flight_ = 0 /\ \A c \in Clients : cpc[c] \in {"idle", "wait_ret"}

HandedToBackend == { id \in Submitted : captured[id] # "none" }

\* The requests whose closure has executed its fetch_sub: the callback has
\* run and no thread stands before the decrement with the request.
Decremented ==
    { id \in Submitted :
        /\ cbCount[id] >= 1
        /\ \A w \in Workers : ~(wpc[w] = "cb_dec" /\ wreq[w].id = id)
        /\ \A c \in Clients : ~(cpc[c] = "sync_dec" /\ Head(to_submit[c]) = id) }

\* C33: the in-flight counter is the number of requests handed to the
\* backend minus the number of closures that have decremented, and it is
\* never below zero, also while a request is completed inside submit.
C33_InFlightBalance ==
    /\ in_flight_ = Cardinality(HandedToBackend) - Cardinality(Decremented)
    /\ in_flight_ >= 0

\* The backend is completing a request inside submit, on the caller's
\* thread, while another request is in flight too.
C33_Witness ==
    /\ kind = "ring" /\ in_flight_ = 2
    /\ \E c \in Clients : cpc[c] = "sync_user"

\* Worker w is inside a completion closure with accesses to the queue's
\* members still ahead of it.
ClosureRunning(w) == wpc[w] \in {"cb_record", "cb_dec", "cb_notify"}

\* C34: when in_flight() is zero and no thread is inside submit_all or
\* wait_all (a caller that saw zero, or to which wait_all returned, may
\* destroy the queue now), no completion closure is still running.
C34_NoClosureAfterDrain ==
    (in_flight_ = 0 /\ \A c \in Clients : cpc[c] = "idle") =>
        \A w \in Workers : ~ClosureRunning(w)

\* Worker w performs device operations in this step: the staging
\* allocation and mapping of a request that goes on to submit_copy, or
\* submit_copy's command buffer, submission and fence wait.
DeviceOp(w) ==
    \/ wpc[w] = "wait" /\ wpc'[w] = "vk_lock"
    \/ wpc[w] = "vk_copy" /\ wpc'[w] # "vk_copy"

\* C35: once cleanup has destroyed the device or the command pool, no
\* worker job performs a device operation.
C35_NoDeviceOpAfterCleanup ==
    [][(destroyed \cap {"device", "command_pool"} # {}) =>
           \A w \in Workers : ~DeviceOp(w)]_vars

\* C36: a record the closure has appended is either in the completed list,
\* once, or was returned by a take_completed call, never both and never
\* neither; and what a call returns was not returned by a call before it,
\* with clients taking and closures appending at the same time.
C36_TakenOnce ==
    /\ [](\A id \in Fired :
            Count(completed_, id) + (IF id \in taken THEN 1 ELSE 0) = 1)
    /\ [][taken' # taken =>
            /\ taken' \ taken = SeqToSet(completed_)
            /\ SeqToSet(completed_) \cap taken = {}
            /\ completed_' = <<>>]_vars

\* A thread is inside take_completed, about to return a record appended
\* after an earlier call returned another one.
C36_Witness ==
    /\ taken # {} /\ completed_ # <<>>
    /\ \E c \in Clients : cpc[c] = "take_locked"

\* The diagnostics reported for a failed positional read or write of
\* request id.
IoDiags(id) ==
    { d \in diags : d.has_request /\ d.rid = id /\ d.operation \in {"pread", "pwrite"} }

\* C37: the errno_value of a request completed after a failed pread or
\* pwrite is the errno the diagnostic for that failure carries, which is
\* the errno of the syscall, whatever the sink did to errno.
C37_ErrnoOfSyscall ==
    \A id \in Delivered :
        \A d \in IoDiags(id) :
            /\ final[id].status = "IoError"
            /\ final[id].errno_value = d.errno_value

\* Thread t invokes the sink it copied: callback(ctx) with a non-empty copy.
InvokesSink(t) ==
    /\ lstack[t] # <<>>
    /\ Top(t).fn \in ReportFns /\ Top(t).pc = "call" /\ Top(t).cb # "none"
    /\ lstack'[t] # lstack[t]

\* Thread t's report reads the slot: its frame leaves the guarded block.
ReadsSlot(t) ==
    /\ lstack[t] # <<>>
    /\ Top(t).fn \in ReportFns /\ Top(t).pc = "locked"
    /\ lstack'[t] # lstack[t]

\* C38 as stated: a sink that is invoked is the sink installed at that
\* moment, so a sink replaced or cleared by a set_error_callback that has
\* returned is never invoked again, also by a report already in progress.
C38_OldSinkNeverInvoked ==
    [][\A t \in Clients : InvokesSink(t) => Top(t).cb = g_error_callback]_vars

\* C38 amended: a report that reads the slot after set_error_callback has
\* returned copies the sink installed at that moment, and the copy a report
\* holds is the one it invokes: it does not change between the read and the
\* return of the sink.
C38_ReadsInstalledSink ==
    [][\A t \in Clients :
          /\ ReadsSlot(t) =>
                /\ Len(lstack'[t]) = Len(lstack[t])
                /\ lstack'[t][Len(lstack[t])].pc = "call"
                /\ lstack'[t][Len(lstack[t])].cb = g_error_callback
          /\ \A i \in 1..Len(lstack[t]) :
                (lstack[t][i].pc \in {"call", "in_sink"} /\ i <= Len(lstack'[t]))
                    => lstack'[t][i].cb = lstack[t][i].cb]_vars

\* One report holds the replaced sink while another, which read the slot
\* after the replacement, holds the installed one.
C38_Witness ==
    \E t, u \in Clients :
        /\ t # u /\ lstack[t] # <<>> /\ lstack[u] # <<>>
        /\ Top(t).fn \in ReportFns /\ Top(t).pc = "call"
        /\ Top(u).fn \in ReportFns /\ Top(u).pc = "call"
        /\ g_error_callback = "plain"
        /\ Top(t).cb = g_error_callback
        /\ Top(u).cb = "reporting"

====
